---------------------------- MODULE Spec2Model ----------------------------
(***************************************************************************)
(* Model of the CloudOps agent repository: the streaming / handoff         *)
(* pipeline of src/src/agent_runtime.py, the alert approval and execution  *)
(* Lambda handlers of src/src/lambdas, and the tool-search query reducer   *)
(* of src/src/utils/query_extractor.py.                                    *)
(*                                                                         *)
(* Several specifications share the module's variables: StreamSpec (one    *)
(* stream_response call, event by event), Spec and its parts (the alert    *)
(* store and the Lambda invocations acting on it), and one specification   *)
(* per function checked on its own.  Each specification holds the          *)
(* variables it does not use at their initial values.                      *)
(***************************************************************************)
EXTENDS Integers, Sequences, FiniteSets, TLC

VARIABLES
    \* ---- stream_response / execute_agent_streaming (agent_runtime.py)
    env,            \* configuration of the process: gateway, memory, session
    finalMessage,   \* final_message, the prompt given to the agent
    srPc,           \* position of stream_response
    easPc,          \* position of execute_agent_streaming
    easHandoff,     \* handoff_detected of execute_agent_streaming's current loop
    srHandoff,      \* handoff_detected of stream_response
    consumed,       \* history: the raw events the agent produced, in order
    out,            \* the frames yielded to the client, in order
    responseParts,  \* response_parts of stream_response
    saveCalls,      \* history: number of save_conversation calls
    saved,          \* the conversation store: the turns saved
    srError         \* history: "" or the message of the exception caught at :276

streamVars == <<env, finalMessage, srPc, easPc, easHandoff, srHandoff, consumed, out,
                responseParts, saveCalls, saved, srError>>

VARIABLES
    \* ---- the alert store and the Lambda invocations (src/src/lambdas)
    secretSet,      \* whether SLACK_SIGNING_SECRET is configured
    alerts,         \* the DynamoDB alerts table: alert id -> record or NoAlert
    cb,             \* invocations of the approval callback handler
    ex,             \* invocations of the execution handler (SNS / direct)
    xinv,           \* invocations of the /execute handler, in order of arrival
    asyncQueue,     \* asynchronous self-invocations not yet delivered
    remediations,   \* history: runs of execute_remediation_actions
    agentExec,      \* history: remediation invocations of the agent
    statusWrites,   \* history: writes of approval_status that took effect
    slackShown      \* the state the alert's Slack message shows

alertVars == <<secretSet, alerts, cb, ex, xinv, asyncQueue, remediations,
               agentExec, statusWrites, slackShown>>

VARIABLES
    \* ---- extract_tool_query (src/src/utils/query_extractor.py)
    prompt,         \* the argument: a sequence of characters
    query,          \* the value returned, once qPc = "done"
    qPc             \* "idle", "ready" (before the call) or "done"

queryVars == <<prompt, query, qPc>>

VARIABLES
    \* ---- one run of a handler that notifies (lambda_invoke_handler.py,
    \* ---- lambda_execution_handler.py), step by step
    nReq,           \* the request and the environment it runs in
    nPc,            \* position of the handler
    nLog,           \* history: the external calls made, in order
    nResp           \* the status code returned, 0 before the return

notifyVars == <<nReq, nPc, nLog, nResp>>

VARIABLES
    \* ---- poll_ingestion and its caller (src/assets/ingest_lambda)
    pollCfg,        \* retries and the statuses the job will report
    attempt,        \* the loop variable of poll_ingestion
    queries,        \* history: the outcome of each get_ingestion_job call
    sleeps,         \* history: seconds spent in time.sleep
    pollPc,         \* position of poll_ingestion / lambda_handler
    pollResp        \* the handler's response, once pollPc = "done"

pollVars == <<pollCfg, attempt, queries, sleeps, pollPc, pollResp>>

VARIABLES
    \* ---- one call of a pure function
    callFn,         \* the function called, "" before any call
    callArg,        \* its argument
    callRet,        \* the value returned, once callPc = "done"
    callPc          \* "idle", "ready" or "done"

callVars == <<callFn, callArg, callRet, callPc>>

VARIABLES
    \* ---- the OAuth state of the process (src/src/components/auth.py)
    oauthEnv,         \* which of COGNITO_USERNAME, _PASSWORD, _CLIENT_ID are set
    oauthInitialized, \* _oauth_initialized
    tokenGetter,      \* what _token_getter returns, "None" without one
    cognitoCalls,     \* history: initiate_auth requests sent to Cognito
    tokenLog          \* history: the calls of get_m2m_token and setup_oauth

oauthVars == <<oauthEnv, oauthInitialized, tokenGetter, cognitoCalls, tokenLog>>

vars == <<streamVars, alertVars, queryVars, notifyVars, pollVars, callVars,
          oauthVars>>

-----------------------------------------------------------------------------
(* Bounds *)

\* Agent events produced during one stream_response call (all agent runs).
MaxEvents == 3

\* Invocations of the approval callback, of the execution handler, and HTTP
\* requests to /execute.
MaxCallbacks == 2
MaxExecutions == 1
MaxExecuteRequests == 1

\* Largest POLL_MAX_RETRIES considered.
MaxRetries == 3

-----------------------------------------------------------------------------
(* Generic helpers *)

Last(s) == s[Len(s)]

RECURSIVE Flatten(_)
Flatten(ss) == IF ss = <<>> THEN <<>> ELSE Head(ss) \o Flatten(Tail(ss))

CountIn(s, P(_)) == Cardinality({i \in 1..Len(s) : P(s[i])})

\* 'sub in text' on strings, as sequences of characters
ContainsSub(text, sub) ==
    \E k \in 1..(Len(text) - Len(sub) + 1) :
        SubSeq(text, k, k + Len(sub) - 1) = sub

-----------------------------------------------------------------------------
(* Agent events.  A text is a sequence of segments: a segment is one       *)
(* character, or a run of characters none of which is a quote, a backslash *)
(* or a control character and which holds no run of three underscores;     *)
(* texts whose length in characters matters are written character by       *)
(* character.  PyNone is Python's None (a tool name has a character).      *)

PyNone == <<>>

ConfirmPrompt == "Do you want to proceed? [y/*]"
MutativeNote == "is potentially mutative"

\* The shapes of an event: a dict with an 'event' key whose value holds a
\* contentBlockDelta, a contentBlockStart, both or neither; a dict without
\* an 'event' key; an object with a delta attribute that has a text; any
\* other object.  'note' is the value of one more field the event carries.
DictShapes ==
    {"contentBlockDelta", "contentBlockStart",
     "contentBlockDelta+contentBlockStart", "messageStop", "init_event_loop"}
ObjectShapes == {"delta_attribute", "object"}

Delta(text) ==
    [shape |-> "contentBlockDelta", text |-> text, name |-> <<"">>, id |-> "",
     note |-> <<>>]
ToolStart(name, id) ==
    [shape |-> "contentBlockStart", text |-> <<>>, name |-> name, id |-> id,
     note |-> <<>>]
OtherEvent ==
    [shape |-> "messageStop", text |-> <<>>, name |-> <<"">>, id |-> "",
     note |-> <<>>]

HasEventKey(event) == event.shape \in DictShapes \ {"init_event_loop"}
HasDelta(event) ==
    event.shape \in {"contentBlockDelta", "contentBlockDelta+contentBlockStart"}
HasStart(event) ==
    event.shape \in {"contentBlockStart", "contentBlockDelta+contentBlockStart"}

EvText == Delta(<<"hello">>)
EvConfirm == Delta(<<"Run it. ", ConfirmPrompt>>)
EvHandoffTool == ToolStart(<<"handoff_to_user">>, "t1")
EvTool == ToolStart(<<"ns", "_", "_", "_", "ec2_list_instances">>, "t2")
EvBadTool == ToolStart(PyNone, "t3")

Events == {EvText, EvConfirm, EvHandoffTool, EvTool, OtherEvent, EvBadTool}

Contains(text, phrase) == \E i \in 1..Len(text) : text[i] = phrase

\* The two phrases, character by character.
Spelled(phrase) ==
    IF phrase = ConfirmPrompt
    THEN <<"D", "o", " ", "y", "o", "u", " ", "w", "a", "n", "t", " ", "t", "o",
           " ", "p", "r", "o", "c", "e", "e", "d", "?", " ", "[", "y", "/", "*",
           "]">>
    ELSE <<"i", "s", " ", "p", "o", "t", "e", "n", "t", "i", "a", "l", "l", "y",
           " ", "m", "u", "t", "a", "t", "i", "v", "e">>

\* agent_runtime.py:182  'phrase in text', for a text that holds the
\* phrase as a segment or character by character
InText(phrase, text) ==
    Contains(text, phrase) \/ ContainsSub(text, Spelled(phrase))

\* A detector that looks at the text delta before the tool start.
IsHandoffEventDeltaFirst(event) ==
    IF HasEventKey(event) /\ HasDelta(event)
       /\ (InText(ConfirmPrompt, event.text) \/ InText(MutativeNote, event.text))
    THEN TRUE
    ELSE HasEventKey(event) /\ HasStart(event)
         /\ event.name = <<"handoff_to_user">>

\* agent_runtime.py:164  _is_handoff_event
IsHandoffEvent(event) ==
    IF HasEventKey(event) /\ HasStart(event)
    THEN event.name = <<"handoff_to_user">>
    ELSE IF HasEventKey(event) /\ HasDelta(event)
    THEN InText(ConfirmPrompt, event.text) \/ InText(MutativeNote, event.text)
    ELSE FALSE

-----------------------------------------------------------------------------
(* Strings: str(), repr() and json (src/src/utils/responses.py:5, 53, 155) *)

\* A slot that holds no character.
NoChar == ""
IsChar(c) == c # NoChar
Squeeze(slots) == SelectSeq(slots, IsChar)

\* the number of backslashes in a row that end just before position k of s,
\* none of them before position lo
BackslashRun(s, k, lo) ==
    CHOOSE n \in 0..(k - lo) :
        /\ \A m \in 1..n : s[k - m] = "\\"
        /\ n = k - lo \/ s[k - n - 1] # "\\"

\* repr() of a str: single quotes unless the text has a single quote and no
\* double quote; backslash, the quote in use and control characters escaped
ReprQuote(s) ==
    IF Contains(s, "'") /\ ~Contains(s, "\"") THEN "\"" ELSE "'"
ReprEscape(c, quote) ==
    IF c = "\\" \/ c = quote THEN <<"\\", c>>
    ELSE IF c = "\n" THEN <<"\\", "n">>
    ELSE IF c = "\t" THEN <<"\\", "t">>
    ELSE IF c = "\r" THEN <<"\\", "r">>
    ELSE <<NoChar, c>>
PyRepr(s) ==
    <<ReprQuote(s)>>
    \o Squeeze([i \in 1..(2 * Len(s)) |->
                    ReprEscape(s[(i + 1) \div 2], ReprQuote(s))[2 - (i % 2)]])
    \o <<ReprQuote(s)>>

\* JSON values: strings, booleans and objects (members in insertion order)
JString(s) == [t |-> "string", s |-> s, b |-> FALSE, o |-> <<>>]
JBool(b) == [t |-> "bool", s |-> <<>>, b |-> b, o |-> <<>>]
JObject(members) == [t |-> "object", s |-> <<>>, b |-> FALSE, o |-> members]
Member(key, value) == [k |-> key, v |-> value]

\* An encoder that leaves every character of a string as it is.
JsonEscapeNothing(c) == <<NoChar, c>>

\* json.dumps of a str: quote, backslash and control characters escaped
\* (ensure_ascii makes no difference to the characters considered)
JsonEscape(c) ==
    IF c = "\\" \/ c = "\"" THEN <<"\\", c>>
    ELSE IF c = "\n" THEN <<"\\", "n">>
    ELSE IF c = "\t" THEN <<"\\", "t">>
    ELSE IF c = "\r" THEN <<"\\", "r">>
    ELSE <<NoChar, c>>
JsonString(s) ==
    <<"\"">>
    \o Squeeze([i \in 1..(2 * Len(s)) |->
                    JsonEscape(s[(i + 1) \div 2])[2 - (i % 2)]])
    \o <<"\"">>

\* json.dumps with the default separators ', ' and ': '
RECURSIVE json_dumps(_), DumpMembers(_)
json_dumps(value) ==
    IF value.t = "string" THEN JsonString(value.s)
    ELSE IF value.t = "bool"
    THEN (IF value.b THEN <<"t", "r", "u", "e">> ELSE <<"f", "a", "l", "s", "e">>)
    ELSE <<"{">> \o DumpMembers(value.o) \o <<"}">>
DumpMembers(members) ==
    IF members = <<>> THEN <<>>
    ELSE JsonString(Head(members).k) \o <<":", " ">> \o json_dumps(Head(members).v)
         \o (IF Len(members) = 1 THEN <<>>
             ELSE <<",", " ">> \o DumpMembers(Tail(members)))

\* json.loads: a parse from position i gives the value and the position
\* after it, or fails
Failed == [ok |-> FALSE, value |-> JBool(FALSE), next |-> 0]
Parsed(value, next) == [ok |-> TRUE, value |-> value, next |-> next]

SkipSpace(s, i) ==
    IF \E j \in i..Len(s) : s[j] # " "
    THEN CHOOSE j \in i..Len(s) :
            s[j] # " " /\ \A m \in i..(j - 1) : s[m] = " "
    ELSE Len(s) + 1

\* the closing quote of the string that opens at position i
ClosingQuotes(s, i) ==
    {j \in (i + 1)..Len(s) : s[j] = "\"" /\ BackslashRun(s, j, i + 1) % 2 = 0}
JsonUnescape(c) ==
    IF c = "n" THEN "\n"
    ELSE IF c = "t" THEN "\t"
    ELSE IF c = "r" THEN "\r"
    ELSE c
Unescaped(s) ==
    Squeeze([k \in 1..Len(s) |->
                IF BackslashRun(s, k, 1) % 2 = 1 THEN JsonUnescape(s[k])
                ELSE IF s[k] = "\\" THEN NoChar
                ELSE s[k]])
ParseString(s, i) ==
    IF i > Len(s) \/ s[i] # "\"" THEN Failed
    ELSE LET quotes == ClosingQuotes(s, i)
             close == CHOOSE j \in quotes : \A m \in quotes : j <= m
         IN  IF quotes = {} THEN Failed
             ELSE Parsed(JString(Unescaped(SubSeq(s, i + 1, close - 1))),
                         close + 1)

IsAt(s, i, word) ==
    i + Len(word) - 1 <= Len(s) /\ SubSeq(s, i, i + Len(word) - 1) = word

RECURSIVE ParseValue(_, _), ParseMembers(_, _, _)
ParseValue(s, i) ==
    IF i > Len(s) THEN Failed
    ELSE IF s[i] = "\"" THEN ParseString(s, i)
    ELSE IF IsAt(s, i, <<"t", "r", "u", "e">>) THEN Parsed(JBool(TRUE), i + 4)
    ELSE IF IsAt(s, i, <<"f", "a", "l", "s", "e">>) THEN Parsed(JBool(FALSE), i + 5)
    ELSE IF s[i] = "{"
    THEN IF IsAt(s, SkipSpace(s, i + 1), <<"}">>)
         THEN Parsed(JObject(<<>>), SkipSpace(s, i + 1) + 1)
         ELSE ParseMembers(s, SkipSpace(s, i + 1), <<>>)
    ELSE Failed
ParseMembers(s, i, members) ==
    LET key == ParseString(s, i)
        colon == SkipSpace(s, key.next)
        value == ParseValue(s, SkipSpace(s, colon + 1))
        after == SkipSpace(s, value.next)
        more == Append(members, Member(key.value.s, value.value))
    IN  IF ~key.ok \/ ~IsAt(s, colon, <<":">>) THEN Failed
        ELSE IF ~value.ok THEN Failed
        ELSE IF IsAt(s, after, <<"}">>) THEN Parsed(JObject(more), after + 1)
        ELSE IF IsAt(s, after, <<",">>)
        THEN ParseMembers(s, SkipSpace(s, after + 1), more)
        ELSE Failed

json_loads(s) ==
    LET parsed == ParseValue(s, SkipSpace(s, 1))
    IN  IF parsed.ok /\ SkipSpace(s, parsed.next) = Len(s) + 1 THEN parsed
        ELSE Failed

\* the value of a key of a parsed object, PyNone if there is none
JsonGet(value, key) ==
    IF \E n \in 1..Len(value.o) : value.o[n].k = key
    THEN value.o[CHOOSE n \in 1..Len(value.o) :
                    value.o[n].k = key
                    /\ \A m \in (n + 1)..Len(value.o) : value.o[m].k # key].v
    ELSE JString(PyNone)

-----------------------------------------------------------------------------
(* Event extraction and SSE formatting (src/src/utils/responses.py) *)

\* str(event), in pieces
StrEventOpen ==
    <<"{", "'", "e", "v", "e", "n", "t", "'", ":", " ", "{">>
StrDeltaOpen ==
    <<"'", "c", "o", "n", "t", "e", "n", "t", "B", "l", "o", "c", "k", "D",
      "e", "l", "t", "a", "'", ":", " ", "{", "'", "d", "e", "l", "t", "a",
      "'", ":", " ", "{", "'", "t", "e", "x", "t", "'", ":", " ">>
StrStartOpen ==
    <<"'", "c", "o", "n", "t", "e", "n", "t", "B", "l", "o", "c", "k", "S",
      "t", "a", "r", "t", "'", ":", " ", "{", "'", "s", "t", "a", "r", "t",
      "'", ":", " ", "{", "'", "t", "o", "o", "l", "U", "s", "e", "'", ":",
      " ", "{", "'", "n", "a", "m", "e", "'", ":", " ">>
StrToolUseId ==
    <<",", " ", "'", "t", "o", "o", "l", "U", "s", "e", "I", "d", "'", ":",
      " ">>
StrStop ==
    <<"'", "m", "e", "s", "s", "a", "g", "e", "S", "t", "o", "p", "'", ":",
      " ", "{", "'", "s", "t", "o", "p", "R", "e", "a", "s", "o", "n", "'",
      ":", " ", "'", "e", "n", "d", "_", "t", "u", "r", "n", "'", "}">>
StrInit ==
    <<"{", "'", "i", "n", "i", "t", "_", "e", "v", "e", "n", "t", "_", "l",
      "o", "o", "p", "'", ":", " ", "T", "r", "u", "e">>
StrNote ==
    <<",", " ", "'", "n", "o", "t", "e", "'", ":", " ">>
StrObjectOpen ==
    <<"S", "t", "r", "e", "a", "m", "E", "v", "e", "n", "t", "(", "d", "e",
      "l", "t", "a", "=", "D", "e", "l", "t", "a", "(", "t", "e", "x", "t",
      "=">>
StrObjectPlain ==
    <<"S", "t", "r", "e", "a", "m", "E", "v", "e", "n", "t", "(", "s", "t",
      "o", "p", "_", "r", "e", "a", "s", "o", "n", "=", "'", "e", "n", "d",
      "_", "t", "u", "r", "n", "'">>
StrNoteAttr ==
    <<",", " ", "n", "o", "t", "e", "=">>

\* repr of a tool name that may be None
ReprName(name) == IF name = PyNone THEN <<"N", "o", "n", "e">> ELSE PyRepr(name)

\* responses.py:155  str(event)
StrOf(event) ==
    IF event.shape \in ObjectShapes
    THEN (IF event.shape = "delta_attribute"
          THEN StrObjectOpen \o PyRepr(event.text) \o <<")">>
          ELSE StrObjectPlain)
         \o (IF event.note = <<>> THEN <<>>
             ELSE StrNoteAttr \o PyRepr(event.note))
         \o <<")">>
    ELSE (IF event.shape = "init_event_loop" THEN StrInit
          ELSE StrEventOpen
               \o (IF HasDelta(event)
                   THEN StrDeltaOpen \o PyRepr(event.text) \o <<"}", "}">>
                   ELSE <<>>)
               \o (IF event.shape = "contentBlockDelta+contentBlockStart"
                   THEN <<",", " ">> ELSE <<>>)
               \o (IF HasStart(event)
                   THEN StrStartOpen \o ReprName(event.name) \o StrToolUseId
                        \o PyRepr(<<event.id>>) \o <<"}", "}", "}">>
                   ELSE <<>>)
               \o (IF event.shape = "messageStop" THEN StrStop ELSE <<>>)
               \o <<"}">>)
         \o (IF event.note = <<>> THEN <<>>
             ELSE StrNote \o PyRepr(event.note))
         \o <<"}">>

\* responses.py:152  type(event).__name__
TypeName(event) ==
    IF event.shape \in ObjectShapes THEN <<"StreamEvent">> ELSE <<"dict">>

\* responses.py:154-156  the string form, cut after RawEventLimit characters
RawEventLimit == 200
RawEvent(event) ==
    IF Len(StrOf(event)) > RawEventLimit
    THEN SubSeq(StrOf(event), 1, RawEventLimit) \o <<".", ".", ".">>
    ELSE StrOf(event)

\* responses.py:97  process_text_formatting: a backslash followed by n, t or
\* r becomes the control character (three replace calls, one after the
\* other; no replacement makes or breaks a match of another)
EscapeLetters == {"n", "t", "r"}
process_text_formatting(text) ==
    Squeeze([k \in 1..Len(text) |->
                IF text[k] = "\\" /\ k < Len(text) /\ text[k + 1] \in EscapeLetters
                THEN JsonUnescape(text[k + 1])
                ELSE IF k > 1 /\ text[k - 1] = "\\" /\ text[k] \in EscapeLetters
                THEN NoChar
                ELSE text[k]])

\* responses.py:184  tool_name.split("___"): the separators found from left
\* to right start at every third underscore of a run of underscores
UnderscoreRun(name, p) ==
    CHOOSE n \in 0..(p - 1) :
        /\ \A m \in 1..n : name[p - m] = "_"
        /\ n = p - 1 \/ name[p - n - 1] # "_"
Separators(name) ==
    {p \in 1..(Len(name) - 2) :
        /\ name[p] = "_" /\ name[p + 1] = "_" /\ name[p + 2] = "_"
        /\ UnderscoreRun(name, p) % 3 = 0}

\* responses.py:183-185  tool_name.split("___")[-1] if "___" in tool_name
CleanToolName(name) ==
    IF Separators(name) = {} THEN name
    ELSE SubSeq(name,
                3 + CHOOSE p \in Separators(name) :
                        \A q \in Separators(name) : q <= p,
                Len(name))

\* responses.py:188-190  the announcement of a tool
Announcement(name, id) ==
    <<"\n", "U+1F50D", " ", "Using", " ">> \o CleanToolName(name)
    \o <<" ", "tool...(ID:", " ", id, ")", "\n">>

\* responses.py:184  '"___" in tool_name' raises TypeError when the name is
\* None; the tool branch is reached when no nested text was found
ExtractRaises(event) ==
    /\ HasEventKey(event) /\ HasStart(event)
    /\ ~(HasDelta(event) /\ event.text # <<>>)
    /\ event.name = PyNone

\* An extraction that looks at the tool before the nested text.
ExtractedToolFirst(event) ==
    IF HasEventKey(event) /\ HasStart(event)
    THEN Announcement(event.name, event.id)
    ELSE IF HasEventKey(event) /\ HasDelta(event) /\ event.text # <<>>
    THEN event.text
    ELSE IF event.shape = "delta_attribute" /\ event.text # <<>>
    THEN event.text
    ELSE <<>>

\* responses.py:159-205  extracted_text, <<>> when nothing was extracted
Extracted(event) ==
    IF HasEventKey(event) /\ HasDelta(event) /\ event.text # <<>>
    THEN event.text
    ELSE IF HasEventKey(event) /\ HasStart(event)
    THEN Announcement(event.name, event.id)
    ELSE IF event.shape = "delta_attribute" /\ event.text # <<>>
    THEN event.text
    ELSE <<>>

\* responses.py:138  extract_content_from_event (defined where it does not raise)
extract_content_from_event(event) ==
    [content |-> process_text_formatting(Extracted(event)),
     event_type |-> TypeName(event),
     has_text |-> Extracted(event) # <<>>,
     raw_event |-> RawEvent(event)]

\* responses.py:30-50  sse_payload
sse_payload(content_data) ==
    IF content_data.has_text
    THEN JObject(<<Member(<<"content">>, JString(content_data.content)),
                   Member(<<"type">>, JString(<<"text_delta">>)),
                   Member(<<"metadata">>,
                          JObject(<<Member(<<"event_type">>,
                                           JString(content_data.event_type)),
                                    Member(<<"has_formatting">>,
                                           JBool(Contains(content_data.content,
                                                          "\n")))>>))>>)
    ELSE JObject(<<Member(<<"event">>, JString(content_data.raw_event)),
                   Member(<<"type">>, JString(<<"event">>)),
                   Member(<<"metadata">>,
                          JObject(<<Member(<<"event_type">>,
                                           JString(content_data.event_type))>>))>>)

\* responses.py:54, 289  f"data: {...}\n\n"
Sse(data) == <<"d", "a", "t", "a", ":", " ">> \o data \o <<"\n", "\n">>

\* responses.py:15  format_diy_response
format_diy_response(event) ==
    Sse(json_dumps(sse_payload(extract_content_from_event(event))))

\* A collector that keeps the text of a delta as the agent sent it and
\* nothing for a tool start.
DeltaTextOnly(event) == IF HasDelta(event) THEN event.text ELSE <<>>

\* responses.py:253  extract_text_from_event
extract_text_from_event(event) == extract_content_from_event(event).content

\* responses.py:275  format_error_response
format_error_response(error_message, agent_type) ==
    IF agent_type = "diy"
    THEN Sse(json_dumps(JObject(<<Member(<<"error">>, JString(<<error_message>>)),
                                  Member(<<"type">>, JString(<<"error">>))>>)))
    ELSE <<"Error:", " ", error_message>>

\* agent_runtime.py:252  the handoff notice written by stream_response
HandoffNotice ==
    Sse(json_dumps(JObject(
        <<Member(<<"type">>, JString(<<"handoff_required">>)),
          Member(<<"message">>,
                 JString(<<"Agent requires your confirmation to proceed.", " ",
                           "Please respond with 'yes' or 'no'.">>))>>)))

\* What a client reads from an output: the JSON value inside the envelope
\* 'data: ' ... two line feeds, if the output is such a frame
SseData(output) ==
    IF /\ Len(output) >= 8
       /\ SubSeq(output, 1, 6) = <<"d", "a", "t", "a", ":", " ">>
       /\ SubSeq(output, Len(output) - 1, Len(output)) = <<"\n", "\n">>
    THEN json_loads(SubSeq(output, 7, Len(output) - 2))
    ELSE Failed
SseType(output) ==
    LET data == SseData(output)
    IN  IF data.ok THEN JsonGet(data.value, <<"type">>).s ELSE PyNone

-----------------------------------------------------------------------------
(* Conversation memory (components.memory, imported at agent_runtime.py:43; *)
(* its source is not part of src/, so it is modelled from the spec's 4.4). *)

is_memory_available == env.memory

\* get_context: returns a text block ("" when nothing is stored: "ok"), or
\* raises when the store is unreachable
GetContextOutcomes == {"ok", "context", "raise"}

\* save_conversation: appends the turn pair, or raises
SaveOutcomes == {"ok", "raise"}

UserMessage == "user message"

-----------------------------------------------------------------------------
(* stream_response and execute_agent_streaming (src/src/agent_runtime.py)  *)

EasRunning == easPc \in {"local", "gateway", "fallback"}

\* agent_runtime.py:276-279  except Exception: yield the formatted error
StreamFail(msg, easNext) ==
    /\ out' = Append(out, format_error_response(msg, "agent_runtime"))
    /\ srError' = msg
    /\ srPc' = "done"
    /\ easPc' = easNext
    /\ UNCHANGED <<env, finalMessage, easHandoff, srHandoff, consumed, responseParts,
                   saveCalls, saved>>

\* agent_runtime.py:238-240  final_message
FinalMessage(context) ==
    IF context = "" THEN <<UserMessage>>
    ELSE <<context, "\n\nCurrent user message: ", UserMessage>>

\* agent_runtime.py:231-242  context fetch and message preparation; the
\* context is "" without memory or session id
GetContext ==
    /\ srPc = "start"
    /\ \E outcome \in GetContextOutcomes :
          IF outcome = "raise"
          THEN /\ is_memory_available /\ env.session
               /\ StreamFail("context store unreachable", easPc)
          ELSE /\ outcome = "context" => is_memory_available /\ env.session
               /\ finalMessage' = FinalMessage(IF outcome = "context"
                                               THEN "earlier turns" ELSE "")
               /\ srPc' = "loop"
               /\ easPc' = "init"
               /\ UNCHANGED <<env, easHandoff, srHandoff, consumed, out,
                              responseParts, saveCalls, saved, srError>>

\* agent_runtime.py:73-81  choice between the local and the gateway path
EasStart ==
    /\ srPc = "loop" /\ easPc = "init"
    /\ easPc' = IF env.gateway THEN "setup" ELSE "local"
    /\ easHandoff' = FALSE
    /\ UNCHANGED <<env, finalMessage, srPc, srHandoff, consumed, out, responseParts,
                   saveCalls, saved, srError>>

\* agent_runtime.py:91-135  token, MCP client, tool search, tool conversion;
\* any exception there is caught at :144 and starts the fallback loop
GatewaySetup ==
    /\ srPc = "loop" /\ easPc = "setup"
    /\ \E ok \in BOOLEAN : easPc' = IF ok THEN "gateway" ELSE "fallback"
    /\ easHandoff' = FALSE
    /\ UNCHANGED <<env, finalMessage, srPc, srHandoff, consumed, out, responseParts,
                   saveCalls, saved, srError>>

\* agent_runtime.py:82-88  one iteration of the loop of the local path: what
\* it yields and the value of handoff_detected afterwards
LocalStep(event, handoff_detected) ==
    IF IsHandoffEvent(event)
    THEN [yielded |-> "marker", handoff_detected |-> TRUE]
    ELSE IF ~handoff_detected
    THEN [yielded |-> "event", handoff_detected |-> handoff_detected]
    ELSE [yielded |-> "nothing", handoff_detected |-> handoff_detected]

\* agent_runtime.py:136-142  one iteration of the loop of the gateway path
GatewayStep(event, handoff_detected) ==
    IF IsHandoffEvent(event)
    THEN [yielded |-> "marker", handoff_detected |-> TRUE]
    ELSE IF ~handoff_detected
    THEN [yielded |-> "event", handoff_detected |-> handoff_detected]
    ELSE [yielded |-> "nothing", handoff_detected |-> handoff_detected]

\* A fallback loop that goes on yielding events after a handoff.
FallbackStepForwarding(event, handoff_detected) ==
    IF IsHandoffEvent(event)
    THEN [yielded |-> "marker", handoff_detected |-> TRUE]
    ELSE [yielded |-> "event", handoff_detected |-> handoff_detected]

\* agent_runtime.py:151-156  one iteration of the fallback loop
FallbackStep(event, handoff_detected) ==
    IF IsHandoffEvent(event)
    THEN [yielded |-> "marker", handoff_detected |-> TRUE]
    ELSE IF ~handoff_detected
    THEN [yielded |-> "event", handoff_detected |-> handoff_detected]
    ELSE [yielded |-> "nothing", handoff_detected |-> handoff_detected]

\* What a step hands to the consumer: the marker with the event, the event,
\* or nothing.
Yielded(step, event) ==
    IF step.yielded = "nothing" THEN <<>>
    ELSE <<[kind |-> step.yielded, event |-> event]>>

\* agent_runtime.py:135-142  the gateway loop over a whole event sequence,
\* started with the given handoff_detected
RECURSIVE GatewayLoop(_, _)
GatewayLoop(events, handoff_detected) ==
    IF events = <<>> THEN <<>>
    ELSE LET step == GatewayStep(Head(events), handoff_detected)
         IN  Yielded(step, Head(events))
                \o GatewayLoop(Tail(events), step.handoff_detected)

\* agent_runtime.py:150-156  the fallback loop over a whole event sequence
RECURSIVE FallbackLoop(_, _)
FallbackLoop(events, handoff_detected) ==
    IF events = <<>> THEN <<>>
    ELSE LET step == FallbackStep(Head(events), handoff_detected)
         IN  Yielded(step, Head(events))
                \o FallbackLoop(Tail(events), step.handoff_detected)

\* What the loop that is running yields for an event
EasYield(event) ==
    IF easPc = "local" THEN LocalStep(event, easHandoff).yielded
    ELSE IF easPc = "gateway" THEN GatewayStep(event, easHandoff).yielded
    ELSE FallbackStep(event, easHandoff).yielded

\* A consumer that writes each new frame ahead of the frames already sent.
AgentEventNewestFirst(event) ==
    /\ srPc = "loop" /\ EasRunning
    /\ Len(consumed) < MaxEvents
    /\ LET yielded == EasYield(event) IN
       IF yielded = "marker"
       THEN /\ out' = Append(out, HandoffNotice)
            /\ srHandoff' = TRUE
            /\ easHandoff' = TRUE
            /\ consumed' = Append(consumed, event)
            /\ UNCHANGED <<env, finalMessage, srPc, easPc, responseParts, saveCalls, saved,
                           srError>>
       ELSE IF yielded = "nothing" \/ srHandoff
       THEN /\ consumed' = Append(consumed, event)
            /\ UNCHANGED <<env, finalMessage, srPc, easPc, easHandoff, srHandoff, out,
                           responseParts, saveCalls, saved, srError>>
       ELSE IF ExtractRaises(event)
       THEN /\ out' = Append(out, format_error_response("event formatting failed",
                                                        "agent_runtime"))
            /\ srError' = "event formatting failed"
            /\ srPc' = "done"
            /\ easPc' = "closed"
            /\ consumed' = Append(consumed, event)
            /\ UNCHANGED <<env, finalMessage, easHandoff, srHandoff, responseParts,
                           saveCalls, saved>>
       ELSE /\ out' = <<format_diy_response(event)>> \o out
            /\ responseParts' =
                  IF extract_text_from_event(event) # <<>>
                  THEN Append(responseParts, extract_text_from_event(event))
                  ELSE responseParts
            /\ consumed' = Append(consumed, event)
            /\ UNCHANGED <<env, finalMessage, srPc, easPc, easHandoff, srHandoff, saveCalls,
                           saved, srError>>

\* agent_runtime.py:248-268  one agent event through both loops
AgentEvent(event) ==
    /\ srPc = "loop" /\ EasRunning
    /\ Len(consumed) < MaxEvents
    /\ LET yielded == EasYield(event) IN
       IF yielded = "marker"
       THEN /\ out' = Append(out, HandoffNotice)
            /\ srHandoff' = TRUE
            /\ easHandoff' = TRUE
            /\ consumed' = Append(consumed, event)
            /\ UNCHANGED <<env, finalMessage, srPc, easPc, responseParts, saveCalls, saved,
                           srError>>
       ELSE IF yielded = "nothing" \/ srHandoff
       THEN /\ consumed' = Append(consumed, event)
            /\ UNCHANGED <<env, finalMessage, srPc, easPc, easHandoff, srHandoff, out,
                           responseParts, saveCalls, saved, srError>>
       ELSE IF ExtractRaises(event)
       THEN /\ out' = Append(out, format_error_response("event formatting failed",
                                                        "agent_runtime"))
            /\ srError' = "event formatting failed"
            /\ srPc' = "done"
            /\ easPc' = "closed"
            /\ consumed' = Append(consumed, event)
            /\ UNCHANGED <<env, finalMessage, easHandoff, srHandoff, responseParts,
                           saveCalls, saved>>
       ELSE /\ out' = Append(out, format_diy_response(event))
            /\ responseParts' =
                  IF extract_text_from_event(event) # <<>>
                  THEN Append(responseParts, extract_text_from_event(event))
                  ELSE responseParts
            /\ consumed' = Append(consumed, event)
            /\ UNCHANGED <<env, finalMessage, srPc, easPc, easHandoff, srHandoff, saveCalls,
                           saved, srError>>

\* agent.stream_async is exhausted: the running loop ends, and with it
\* execute_agent_streaming and the loop of stream_response (:248)
AgentEnd ==
    /\ srPc = "loop" /\ EasRunning
    /\ easPc' = "end"
    /\ srPc' = "save"
    /\ UNCHANGED <<env, finalMessage, easHandoff, srHandoff, consumed, out, responseParts,
                   saveCalls, saved, srError>>

\* agent.stream_async raises: on the gateway path the except at :144 starts
\* the fallback loop with a fresh handoff_detected; elsewhere the exception
\* reaches stream_response
AgentRaise ==
    /\ srPc = "loop" /\ EasRunning
    /\ IF easPc = "gateway"
       THEN /\ easPc' = "fallback"
            /\ easHandoff' = FALSE
            /\ UNCHANGED <<env, finalMessage, srPc, srHandoff, consumed, out, responseParts,
                           saveCalls, saved, srError>>
       ELSE StreamFail("agent stream failed", "raised")

\* A variant of SaveToMemory: the save sits inside the event loop, so the text
\* collected so far is saved while the agent is still streaming.
SaveToMemoryInLoop ==
    /\ srPc \in {"loop", "save"}
    /\ easPc \in {"local", "gateway", "fallback", "end"}
    /\ is_memory_available /\ env.session /\ responseParts # <<>>
    /\ saveCalls' = saveCalls + 1
    /\ saved' = Append(saved, [user |-> UserMessage,
                               agent |-> Flatten(responseParts)])
    /\ srPc' = IF srPc = "save" THEN "done" ELSE srPc
    /\ UNCHANGED <<env, finalMessage, easPc, easHandoff, srHandoff, consumed, out,
                   responseParts, srError>>

\* agent_runtime.py:270-274  save to memory after the loop
SaveToMemory ==
    /\ srPc = "save"
    /\ IF is_memory_available /\ env.session /\ responseParts # <<>>
       THEN \E outcome \in SaveOutcomes :
              IF outcome = "ok"
              THEN /\ saveCalls' = saveCalls + 1
                   /\ saved' = Append(saved, [user |-> UserMessage,
                                              agent |-> Flatten(responseParts)])
                   /\ srPc' = "done"
                   /\ UNCHANGED <<env, finalMessage, easPc, easHandoff, srHandoff, consumed,
                                  out, responseParts, srError>>
              ELSE /\ saveCalls' = saveCalls + 1
                   /\ out' = Append(out, format_error_response("save failed",
                                                               "agent_runtime"))
                   /\ srError' = "save failed"
                   /\ srPc' = "done"
                   /\ UNCHANGED <<env, finalMessage, easPc, easHandoff, srHandoff, consumed,
                                  responseParts, saved>>
       ELSE /\ srPc' = "done"
            /\ UNCHANGED <<env, finalMessage, easPc, easHandoff, srHandoff, consumed, out,
                           responseParts, saveCalls, saved, srError>>

StreamIdle ==
    /\ finalMessage = <<>>
    /\ env = [gateway |-> FALSE, memory |-> FALSE, session |-> FALSE]
    /\ srPc = "idle" /\ easPc = "idle"
    /\ easHandoff = FALSE /\ srHandoff = FALSE
    /\ consumed = <<>> /\ out = <<>> /\ responseParts = <<>>
    /\ saveCalls = 0 /\ saved = <<>> /\ srError = ""

StreamStart ==
    /\ finalMessage = <<>>
    /\ env \in [gateway : BOOLEAN, memory : BOOLEAN, session : BOOLEAN]
    /\ srPc = "start" /\ easPc = "idle"
    /\ easHandoff = FALSE /\ srHandoff = FALSE
    /\ consumed = <<>> /\ out = <<>> /\ responseParts = <<>>
    /\ saveCalls = 0 /\ saved = <<>> /\ srError = ""


-----------------------------------------------------------------------------
(* Properties of the stream *)

IsNotice(frame) == SseType(frame) = <<"handoff_required">>
IsAgentFrame(frame) == SseType(frame) \in {<<"text_delta">>, <<"event">>}
IsErrorFrame(frame) == SseType(frame) = <<"error">>

HandoffIndexes == {i \in 1..Len(consumed) : IsHandoffEvent(consumed[i])}
NoticeIndexes == {i \in 1..Len(out) : IsNotice(out[i])}
Min(S) == CHOOSE x \in S : \A y \in S : x <= y

\* No agent event is forwarded after the first handoff notice.
NothingForwardedAfterNotice ==
    \A i \in NoticeIndexes : \A j \in (i + 1)..Len(out) : ~IsAgentFrame(out[j])

\* C1: in one stream_response call no agent event after the first
\* handoff-triggering event is forwarded, and exactly one handoff_required
\* notice is emitted, at the position of that first triggering event (no
\* notice when no event triggers a handoff).
C1_SingleHandoffNotice ==
    /\ NothingForwardedAfterNotice
    /\ Cardinality(NoticeIndexes) = (IF HandoffIndexes = {} THEN 0 ELSE 1)
    /\ HandoffIndexes # {} => Min(NoticeIndexes) = Min(HandoffIndexes)

\* C6: when anything raises inside stream_response, the last frame sent is
\* the SSE frame data: {"error": <message>, "type": "error"}, it is the only
\* error frame, and the stream has ended.
C6_ErrorFrameIsSse ==
    srError # "" =>
        /\ srPc = "done"
        /\ out # <<>>
        /\ Last(out) = format_error_response(srError, "diy")
        /\ CountIn(out, IsErrorFrame) = 1

\* C10: save_conversation is called at most once, only after the agent's
\* event stream was fully consumed and stream_response forwards nothing
\* more; a stream that did not run to its end leaves nothing in the store.
C10_SaveOnlyAfterStream ==
    /\ saveCalls <= 1
    /\ saveCalls > 0 => (easPc = "end" /\ srPc = "done")
    /\ easPc # "end" => (saveCalls = 0 /\ saved = <<>>)

\* C10 witness: a turn was saved after events had been forwarded, one of
\* them after a handoff-free fallback or local run.
C10_Witness ==
    /\ saveCalls = 1 /\ saved # <<>>
    /\ Len(consumed) >= 2 /\ Len(out) >= 2

MemoryFailed == srError \in {"context store unreachable", "save failed"}

IsErrorOutput(frame) ==
    \E msg \in {"context store unreachable", "save failed",
                "agent stream failed", "event formatting failed"},
       agent_type \in {"diy", "agent_runtime"} :
        frame = format_error_response(msg, agent_type)

\* C11: a failure of the conversation store never fails a turn: when
\* get_conversation_context or save_conversation raises, the agent has still
\* been invoked with the user's message and the client receives no error
\* output because of it.
C11_MemoryFailureNeverFailsTurn ==
    MemoryFailed =>
        /\ easPc # "idle"
        /\ CountIn(out, IsErrorOutput) = 0

GatewayRaiseFallsBack ==
    easPc \in {"setup", "gateway"} =>
        /\ srError' # "agent stream failed"
        /\ easPc' = "fallback" => easHandoff' = FALSE

\* C13: an exception anywhere on the gateway path (setup or streaming)
\* never reaches the client: the fallback loop starts, with a fresh
\* handoff_detected; and the fallback loop yields, for every event sequence
\* and from either value of handoff_detected, what the gateway loop yields.
C13_FallbackSameStateMachine ==
    /\ [](\A detected \in BOOLEAN :
            FallbackLoop(consumed, detected) = GatewayLoop(consumed, detected))
    /\ [][GatewayRaiseFallsBack]_vars

\* C13 witness: the gateway path was taken and has raised, and the fallback
\* loop has since met a handoff event of its own.
C13_Witness ==
    /\ env.gateway /\ easPc = "fallback" /\ easHandoff
    /\ Len(consumed) = MaxEvents

\* The events consumed before the first handoff-triggering event.
BeforeHandoff ==
    {i \in 1..Len(consumed) : \A h \in HandoffIndexes : i < h}

\* C14: the frames sent before any handoff are the formatted images of the
\* agent's events, in the order the agent produced them, one frame per
\* event and none outstanding when the next event is consumed; an event
\* whose formatting raises ends the stream in place of its frame.
C14_FramesInAgentOrder ==
    /\ \A i \in BeforeHandoff :
          /\ i <= Len(out)
          /\ IF ExtractRaises(consumed[i])
             THEN i = Len(consumed) /\ srPc = "done" /\ IsErrorOutput(out[i])
             ELSE out[i] = format_diy_response(consumed[i])
    /\ CountIn(out, IsAgentFrame)
          = Cardinality({i \in BeforeHandoff : ~ExtractRaises(consumed[i])})

\* C14 witness: three different events were forwarded, no handoff among
\* them, on the fallback path.
C14_Witness ==
    /\ env.gateway /\ easPc = "fallback" /\ HandoffIndexes = {}
    /\ consumed = <<EvTool, OtherEvent, EvText>>
    /\ Len(out) = 3

-----------------------------------------------------------------------------
\* The content fields of the text_delta frames sent before any handoff
\* notice, in the order they were sent, read back from the frames.
IsTextDelta(frame) == SseType(frame) = <<"text_delta">>
ContentOf(frame) == JsonGet(SseData(frame).value, <<"content">>).s
TextSentBeforeHandoff(frames) ==
    LET notices == {i \in 1..Len(frames) : IsNotice(frames[i])}
        before == SubSeq(frames, 1, IF notices = {} THEN Len(frames)
                                    ELSE Min(notices) - 1)
        deltas == SelectSeq(before, IsTextDelta)
    IN  Flatten([k \in 1..Len(deltas) |-> ContentOf(deltas[k])])

\* C30: when a turn is saved, the agent_response given to save_conversation
\* is the concatenation, in order, of the content fields of the text_delta
\* frames sent before any handoff (tool announcements included, nothing
\* from after the handoff) and the user message is the original one; there
\* is no save without memory, without a session id or without text sent.
C30_SavedTextIsTextSent ==
    /\ \A k \in 1..Len(saved) :
          /\ saved[k].agent = TextSentBeforeHandoff(out)
          /\ saved[k].user = UserMessage
          /\ Last(finalMessage) = saved[k].user
    /\ saveCalls > 0 =>
          /\ is_memory_available /\ env.session
          /\ TextSentBeforeHandoff(out) # <<>>
          /\ Flatten(responseParts) = TextSentBeforeHandoff(out)

\* C30 witness: a turn was saved after a text, a tool announcement and then
\* a handoff, and an event after the handoff was dropped.
C30_Witness ==
    /\ Len(saved) = 1 /\ Len(consumed) = 3 /\ srHandoff
    /\ consumed[1] = EvTool
    /\ IsHandoffEvent(consumed[2])
    /\ consumed[3] = EvText
    /\ saved[1].agent = extract_text_from_event(EvTool)
    /\ finalMessage = FinalMessage("earlier turns")

-----------------------------------------------------------------------------
(* The alert store (DynamoDB table DYNAMODB_ALERTS_TABLE) *)

AlertIds == {"a1"}
NoAlert == [approval_status |-> "none", execution_status |-> "none",
            agent_session_id |-> "none"]

\* lambda_invoke_handler.py:376-392  the item written by store_alert_in_dynamodb
NewAlert(session) ==
    [approval_status |-> "pending", execution_status |-> "not_started",
     agent_session_id |-> session]

\* lambda_invoke_handler.py:697-727  lambda_handler: analysis by the agent
\* (which yields the session id, or None when the analysis failed) and the
\* write of the alert record, which may fail and then leaves no record
CreateAlert(a) ==
    /\ alerts[a] = NoAlert
    /\ \E session \in {"s1", "None"}, stored \in BOOLEAN :
          alerts' = IF stored THEN [alerts EXCEPT ![a] = NewAlert(session)]
                    ELSE alerts
    /\ UNCHANGED <<secretSet, cb, ex, xinv, asyncQueue, remediations,
                   agentExec, statusWrites, slackShown>>

-----------------------------------------------------------------------------
(* Approval callback (src/src/lambdas/lambda_approval_handler.py) *)

\* lambda_approval_handler.py:33  current_timestamp = int(time.time())
Now == 1000
\* lambda_approval_handler.py:34  the replay window, in seconds
ReplayWindow == 300

Secret == "shh"
Body == "payload=..."

Abs(n) == IF n < 0 THEN -n ELSE n

\* lambda_approval_handler.py:40-46  'v0=' + HMAC-SHA256('v0:{ts}:{body}')
Hmac(secret, message) == <<"hmac_sha256", secret, message>>
ExpectedSignature(secret, timestamp, body) ==
    <<"v0=", Hmac(secret, <<"v0", timestamp, body>>)>>

\* The callback requests considered: with or without the two signature
\* headers, a numeric timestamp around the replay window or a non-numeric
\* one, and a signature that is the right one, one made with another
\* secret, or the right one of another timestamp (a replayed signature).
Timestamps == {Now - ReplayWindow - 1, Now - ReplayWindow, Now,
               Now + ReplayWindow, Now + ReplayWindow + 1}
SignatureSent(kind, timestamp) ==
    IF kind = "right" THEN ExpectedSignature(Secret, timestamp, Body)
    ELSE IF kind = "other secret" THEN ExpectedSignature("guess", timestamp, Body)
    ELSE ExpectedSignature(Secret, timestamp + 1, Body)
Actions == {"approve_remediation", "dismiss_alert", "view_full_analysis",
            "other_action", "no_actions", "unparseable"}
SlackRequests ==
    {[headers |-> h, numeric |-> n, timestamp |-> t, signature |-> g,
      action |-> act] :
        h \in BOOLEAN, n \in BOOLEAN, t \in Timestamps,
        g \in {"right", "other secret", "other timestamp"}, act \in Actions}

\* lambda_approval_handler.py:34  int(slack_request_timestamp) raises
\* ValueError outside the handler's try block
VerifyRaises(request) ==
    secretSet /\ request.headers /\ ~request.numeric

\* lambda_approval_handler.py:11-52  verify_slack_signature
verify_slack_signature(request) ==
    IF ~secretSet THEN TRUE
    ELSE IF ~request.headers THEN FALSE
    ELSE IF Abs(Now - request.timestamp) > ReplayWindow THEN FALSE
    ELSE SignatureSent(request.signature, request.timestamp)
            = ExpectedSignature(Secret, request.timestamp, Body)

\* The requests of the lifecycle specification: well-formed approve and
\* dismiss clicks, signed with the shared secret or with another one.
LifecycleRequests ==
    {r \in SlackRequests :
        /\ r.headers /\ r.numeric /\ r.timestamp = Now
        /\ r.signature \in {"right", "other secret"}
        /\ r.action \in {"approve_remediation", "dismiss_alert"}}

\* One invocation of the callback.  authentic, afterOthers and payload are
\* history: whether the request met the three conditions of Authentic,
\* whether every other invocation had returned when this one was received,
\* and what the body of the request held.
IdleCallback == [pc |-> "idle", action |-> "", authentic |-> FALSE,
                 afterOthers |-> FALSE, payload |-> "", resp |-> ""]

CbDone(i, authentic, action, resp) ==
    cb' = [cb EXCEPT ![i].pc = "done", ![i].action = action,
                     ![i].authentic = authentic, ![i].resp = resp]

\* What C7 requires of a request that may touch alert state: both headers,
\* a timestamp at most 300 seconds from now, and the signature of
\* 'v0:{timestamp}:{body}' under the shared secret.  Recorded with each
\* invocation as history; the handler does not read it.
Authentic(request) ==
    /\ request.headers
    /\ request.numeric
    /\ Abs(Now - request.timestamp) <= 300
    /\ SignatureSent(request.signature, request.timestamp)
          = ExpectedSignature(Secret, request.timestamp, Body)

\* lambda_approval_handler.py:322-364  signature check and payload parsing
CbReceive(i, request) ==
    /\ cb[i].pc = "idle"
    /\ \A j \in 1..(i - 1) : cb[j].pc # "idle"
    /\ LET received ==
               [IdleCallback EXCEPT
                  !.authentic = Authentic(request),
                  !.payload = request.action,
                  !.afterOthers = \A k \in 1..MaxCallbacks :
                                     k # i => cb[k].pc \in {"idle", "done"}]
           returned(resp) == [received EXCEPT !.pc = "done", !.resp = resp]
       IN  cb' = [cb EXCEPT ![i] =
                    IF VerifyRaises(request)
                    THEN returned("unhandled ValueError")
                    ELSE IF ~verify_slack_signature(request)
                    THEN returned("401 Invalid signature")
                    ELSE IF request.action = "unparseable"
                    THEN returned("500 error")
                    ELSE IF request.action = "no_actions"
                    THEN returned("400 No actions found")
                    ELSE [received EXCEPT !.pc = "get",
                                          !.action = request.action]]
    /\ UNCHANGED <<secretSet, alerts, ex, xinv, asyncQueue, remediations,
                   agentExec, statusWrites, slackShown>>

\* lambda_approval_handler.py:366-388, 426-500  get_alert_data, the
\* 'already processed' check and the actions that change nothing
CbGet(i, a) ==
    /\ cb[i].pc = "get"
    /\ \E readOk \in BOOLEAN :
          IF ~readOk \/ alerts[a] = NoAlert
          THEN CbDone(i, cb[i].authentic, cb[i].action,
                      "404 Alert not found or expired")
          ELSE IF alerts[a].approval_status # "pending"
          THEN CbDone(i, cb[i].authentic, cb[i].action, "200 already processed")
          ELSE IF cb[i].action \in {"approve_remediation", "dismiss_alert"}
          THEN cb' = [cb EXCEPT ![i].pc = "update"]
          ELSE IF cb[i].action = "view_full_analysis"
          THEN CbDone(i, cb[i].authentic, cb[i].action, "200 full analysis")
          ELSE CbDone(i, cb[i].authentic, cb[i].action, "400 Unknown action")
    /\ UNCHANGED <<secretSet, alerts, ex, xinv, asyncQueue, remediations,
                   agentExec, statusWrites, slackShown>>

\* lambda_approval_handler.py:79-103  update_alert_status: an unconditional
\* SET of approval_status; False (and no write) when update_item raises
update_alert_status(a, status, written) ==
    /\ alerts' = IF written
                 THEN [alerts EXCEPT ![a].approval_status = status]
                 ELSE alerts
    /\ statusWrites' = IF written THEN statusWrites + 1 ELSE statusWrites

\* lambda_approval_handler.py:391, 414  the handler calls update_alert_status
\* and does not look at what it returns
CbUpdate(i, a) ==
    /\ cb[i].pc = "update"
    /\ \E written \in BOOLEAN :
          update_alert_status(a, IF cb[i].action = "approve_remediation"
                                 THEN "approved" ELSE "dismissed", written)
    /\ cb' = [cb EXCEPT ![i].pc = "act"]
    /\ UNCHANGED <<secretSet, ex, xinv, asyncQueue, remediations, agentExec,
                   slackShown>>

\* lambda_approval_handler.py:393-410, 416-424  execute_remediation_actions
\* (approval only), update_slack_message and the 200 response
CbAct(i) ==
    /\ cb[i].pc = "act"
    /\ IF cb[i].action = "approve_remediation"
       THEN /\ remediations' = remediations + 1
            /\ \E shown \in {slackShown, "approved"} : slackShown' = shown
            /\ CbDone(i, cb[i].authentic, cb[i].action,
                      "200 Remediation approved and executed")
       ELSE /\ remediations' = remediations
            /\ \E shown \in {slackShown, "dismissed"} : slackShown' = shown
            /\ CbDone(i, cb[i].authentic, cb[i].action, "200 Alert dismissed")
    /\ UNCHANGED <<secretSet, alerts, ex, xinv, asyncQueue, agentExec,
                   statusWrites>>

-----------------------------------------------------------------------------
(* Execution handler, SNS or direct (src/src/lambdas/lambda_execution_handler.py) *)

\* 'invoked' is history: whether this invocation has called the agent.
IdleExecution ==
    [pc |-> "idle", session |-> "", status |-> "", resp |-> "",
     invoked |-> FALSE]

ExDone(j, resp) == ex' = [ex EXCEPT ![j].pc = "done", ![j].resp = resp]

\* lambda_execution_handler.py:37-55  parse the request, require alert_id
ExReceive(j, hasAlertId) ==
    /\ ex[j].pc = "idle"
    /\ \A k \in 1..(j - 1) : ex[k].pc # "idle"
    /\ IF hasAlertId
       THEN ex' = [ex EXCEPT ![j].pc = "get"]
       ELSE ExDone(j, "400 alert_id is required")
    /\ UNCHANGED <<secretSet, alerts, cb, xinv, asyncQueue, remediations,
                   agentExec, statusWrites, slackShown>>

\* lambda_execution_handler.py:57-83  read the alert, require it approved,
\* take the session id stored with it
ExGet(j, a) ==
    /\ ex[j].pc = "get"
    /\ \E readOk \in BOOLEAN :
          IF ~readOk \/ alerts[a] = NoAlert
          THEN ExDone(j, "404 Alert not found")
          ELSE IF alerts[a].approval_status # "approved"
          THEN ExDone(j, "400 Alert is not approved")
          ELSE ex' = [ex EXCEPT ![j].pc = "agent",
                                ![j].session = alerts[a].agent_session_id]
    /\ UNCHANGED <<secretSet, alerts, cb, xinv, asyncQueue, remediations,
                   agentExec, statusWrites, slackShown>>

\* lambda_execution_handler.py:187-225  execute_with_agent: the agent is
\* invoked once with the session id ("ok", "agent_error"), or the call fails
\* before the request is sent ("not_invoked": configuration or token missing)
AgentOutcomes == {"ok", "agent_error", "not_invoked"}

AgentInvocation(a, session, via, outcome) ==
    IF outcome = "not_invoked" THEN agentExec
    ELSE agentExec \cup {[alert |-> a, session |-> session, via |-> via]}

\* lambda_execution_handler.py:94-100  the remediation run of the agent.
\* With the session id None of an alert whose analysis failed, invoke_agent
\* (:307-319) refuses the sessionId before any request is sent.
ExAgent(j, a) ==
    /\ ex[j].pc = "agent"
    /\ \E outcome \in AgentOutcomes :
          /\ ex[j].session = "None" => outcome = "not_invoked"
          /\ agentExec' = AgentInvocation(a, ex[j].session, "handler", outcome)
          /\ ex' = [ex EXCEPT ![j].pc = "update",
                              ![j].status = IF outcome = "ok" THEN "completed"
                                            ELSE "failed",
                              ![j].invoked = (outcome # "not_invoked")]
    /\ UNCHANGED <<secretSet, alerts, cb, xinv, asyncQueue, remediations,
                   statusWrites, slackShown>>

\* lambda_execution_handler.py:393-424  update_execution_status: an
\* unconditional SET of execution_status; no write when update_item raises
update_execution_status(a, status, written) ==
    alerts' = IF written
              THEN [alerts EXCEPT ![a].execution_status = status]
              ELSE alerts

\* lambda_execution_handler.py:102-135  record the result, upload it, notify
ExUpdate(j, a) ==
    /\ ex[j].pc = "update"
    /\ \E written \in BOOLEAN : update_execution_status(a, ex[j].status, written)
    /\ ExDone(j, "200 Execution completed")
    /\ UNCHANGED <<secretSet, cb, xinv, asyncQueue, remediations, agentExec,
                   statusWrites, slackShown>>

-----------------------------------------------------------------------------
(* /execute handler (src/src/lambdas/lambda_execution_handler_copy.py) *)

\* Query parameters of a request: alert_id and session_id ("" when absent)
\* and the async flag.
ExecuteParams ==
    [alert_id : AlertIds \cup {""}, session_id : {"s1", "s9", ""},
     async : BOOLEAN]

\* The requests of the lifecycle specification: the link of the Teams card.
LifecycleExecuteParams ==
    {p \in ExecuteParams : p.alert_id # "" /\ p.session_id = "s1" /\ ~p.async}

NewInvocation(origin, params, depth) ==
    [origin |-> origin, params |-> params, depth |-> depth, pc |-> "start",
     resp |-> "", spawned |-> <<>>, execCalls |-> 0, s3Writes |-> 0]

HttpRequests == Cardinality({n \in 1..Len(xinv) : xinv[n].origin = "http"})

\* An HTTP request arrives at the handler.
XArrive(params) ==
    /\ HttpRequests < MaxExecuteRequests
    /\ xinv' = Append(xinv, NewInvocation("http", params, 1))
    /\ UNCHANGED <<secretSet, alerts, cb, ex, asyncQueue, remediations,
                   agentExec, statusWrites, slackShown>>

\* The Lambda service delivers an asynchronous self-invocation.
XDeliver ==
    /\ asyncQueue # <<>>
    /\ xinv' = Append(xinv, NewInvocation("self", Head(asyncQueue).params,
                                          Head(asyncQueue).depth))
    /\ asyncQueue' = Tail(asyncQueue)
    /\ UNCHANGED <<secretSet, alerts, cb, ex, remediations, agentExec,
                   statusWrites, slackShown>>

XDone(n, resp) == xinv' = [xinv EXCEPT ![n].pc = "done", ![n].resp = resp]

\* A handler that runs the remediation in the request itself, whatever the
\* async flag says.
XStartInline(n) ==
    /\ xinv[n].pc = "start"
    /\ LET p == xinv[n].params IN
       IF p.alert_id = ""
       THEN XDone(n, "400 alert_id is required")
       ELSE IF p.session_id = ""
       THEN XDone(n, "400 session_id is required")
       ELSE xinv' = [xinv EXCEPT ![n].pc = "agent"]
    /\ UNCHANGED <<secretSet, alerts, cb, ex, asyncQueue, remediations,
                   agentExec, statusWrites, slackShown>>

\* lambda_execution_handler_copy.py:60-139  parameter checks and, without
\* async=true, the asynchronous self-invocation and the 202 response
XStart(n) ==
    /\ xinv[n].pc = "start"
    /\ LET p == xinv[n].params IN
       IF p.alert_id = ""
       THEN XDone(n, "400 alert_id is required") /\ UNCHANGED asyncQueue
       ELSE IF p.session_id = ""
       THEN XDone(n, "400 session_id is required") /\ UNCHANGED asyncQueue
       ELSE IF ~p.async
       THEN \E invoked \in BOOLEAN :
              IF invoked
              THEN LET event == [params |-> [p EXCEPT !.async = TRUE],
                                 depth |-> xinv[n].depth + 1]
                   IN  /\ asyncQueue' = Append(asyncQueue, event)
                       /\ xinv' = [xinv EXCEPT ![n].pc = "done",
                                               ![n].resp = "202 accepted",
                                               ![n].spawned = <<event.params>>]
              ELSE /\ XDone(n, "500 Failed to trigger execution")
                   /\ UNCHANGED asyncQueue
       ELSE xinv' = [xinv EXCEPT ![n].pc = "agent"] /\ UNCHANGED asyncQueue
    /\ UNCHANGED <<secretSet, alerts, cb, ex, remediations, agentExec,
                   statusWrites, slackShown>>

\* lambda_execution_handler_copy.py:141-185  with async=true: the agent runs
\* the remediation with the session id of the request, the result is
\* uploaded to S3 (best effort)
XAgent(n) ==
    /\ xinv[n].pc = "agent"
    /\ \E outcome \in AgentOutcomes, uploaded \in BOOLEAN :
          /\ agentExec' = AgentInvocation(xinv[n].params.alert_id,
                                          xinv[n].params.session_id,
                                          "execute", outcome)
          /\ xinv' = [xinv EXCEPT
                        ![n].pc = "done",
                        ![n].execCalls = @ + 1,
                        ![n].s3Writes = IF uploaded THEN @ + 1 ELSE @,
                        ![n].resp = IF outcome = "ok" THEN "200 SUCCESS"
                                    ELSE "200 FAILED"]
    /\ UNCHANGED <<secretSet, alerts, cb, ex, asyncQueue, remediations,
                   statusWrites, slackShown>>

-----------------------------------------------------------------------------
(* extract_tool_query (src/src/utils/query_extractor.py) *)

MaxWords == 3

UpperCase == <<"A", "B", "C", "D", "E", "F", "G", "H", "I", "J", "K", "L", "M",
               "N", "O", "P", "Q", "R", "S", "T", "U", "V", "W", "X", "Y", "Z">>
LowerCase == <<"a", "b", "c", "d", "e", "f", "g", "h", "i", "j", "k", "l", "m",
               "n", "o", "p", "q", "r", "s", "t", "u", "v", "w", "x", "y", "z">>

\* str.lower(), one character
LowerChar(c) ==
    IF \E k \in 1..Len(UpperCase) : UpperCase[k] = c
    THEN LowerCase[CHOOSE k \in 1..Len(UpperCase) : UpperCase[k] = c]
    ELSE c

\* query_extractor.py:30  prompt.lower()
Lower(chars) == [k \in 1..Len(chars) |-> LowerChar(chars[k])]

IsSpace(c) == c \in {" ", "\t", "\n"}

\* query_extractor.py:30  str.split(): the maximal runs of non-whitespace
\* characters, from left to right
WordStarts(chars) ==
    {k \in 1..Len(chars) :
        ~IsSpace(chars[k]) /\ (k = 1 \/ IsSpace(chars[k - 1]))}
WordEnd(chars, start) ==
    CHOOSE e \in start..Len(chars) :
        /\ \A k \in start..e : ~IsSpace(chars[k])
        /\ e = Len(chars) \/ IsSpace(chars[e + 1])
Split(chars) ==
    [n \in 1..Cardinality(WordStarts(chars)) |->
        LET start == CHOOSE k \in WordStarts(chars) :
                        Cardinality({m \in WordStarts(chars) : m <= k}) = n
        IN  SubSeq(chars, start, WordEnd(chars, start))]

\* query_extractor.py:39  ' '.join(words)
RECURSIVE Join(_)
Join(words) ==
    IF words = <<>> THEN <<>>
    ELSE IF Len(words) = 1 THEN Head(words)
    ELSE Head(words) \o <<" ">> \o Join(Tail(words))

\* The word a sequence of characters spells.
RECURSIVE WordString(_)
WordString(word) ==
    IF word = <<>> THEN "" ELSE Head(word) \o WordString(Tail(word))

\* query_extractor.py:14-27  stop_words
StopWords ==
    {"i", "me", "my", "myself", "we", "our", "ours", "ourselves", "you",
     "your", "yours", "yourself", "yourselves", "he", "him", "his",
     "himself", "she", "her", "hers", "herself", "it", "its", "itself",
     "they", "them", "their", "theirs", "themselves", "what", "which",
     "who", "whom", "this", "that", "these", "those", "am", "is", "are",
     "was", "were", "be", "been", "being", "have", "has", "had", "having",
     "do", "does", "did", "doing", "a", "an", "the", "and", "but", "if",
     "or", "because", "as", "until", "while", "of", "at", "by", "for",
     "with", "about", "against", "between", "into", "through", "during",
     "before", "after", "above", "below", "to", "from", "up", "down", "in",
     "out", "on", "off", "over", "under", "again", "further", "then",
     "once", "can", "could", "should", "would", "please", "help", "show",
     "tell", "give", "get", "need", "want"}

\* s[:n]
Prefix(s, n) == SubSeq(s, 1, IF Len(s) < n THEN Len(s) ELSE n)

\* A filter that keeps only words of more than three characters.
IsKeyWordOverThree(word) == WordString(word) \notin StopWords /\ Len(word) > 3

\* query_extractor.py:33  the words kept
IsKeyWord(word) == WordString(word) \notin StopWords /\ Len(word) > 2
KeyWords(chars) == SelectSeq(Split(Lower(chars)), IsKeyWord)

\* A variant that falls back to the prompt only below two key words.
extract_tool_query_two(chars) ==
    IF Len(KeyWords(chars)) < 2
    THEN Prefix(chars, 100)
    ELSE Join(Prefix(KeyWords(chars), 10))

\* query_extractor.py:4-39  extract_tool_query
extract_tool_query(chars) ==
    IF Len(KeyWords(chars)) < 3
    THEN Prefix(chars, 100)
    ELSE Join(Prefix(KeyWords(chars), 10))

\* Words, as the characters they are made of.
WordCan == <<"C", "a", "n">>
WordYou == <<"y", "o", "u">>
WordPlease == <<"p", "l", "e", "a", "s", "e">>
WordShow == <<"s", "h", "o", "w">>
WordMy == <<"m", "y">>
WordMe == <<"m", "e">>
WordEC2 == <<"E", "C", "2">>
WordInstances == <<"i", "n", "s", "t", "a", "n", "c", "e", "s">>
WordList == <<"l", "i", "s", "t">>
WordS3 == <<"s", "3">>

\* The prompts considered: up to MaxWords words of a small vocabulary (the
\* empty word gives leading, trailing and doubled blanks), the prompt of
\* C9, a prompt of twelve key words and one of more than 100 characters
\* with no key word.
Vocabulary ==
    {WordCan, WordMe, WordEC2, WordInstances, WordList, WordS3, <<>>}
WordLists == UNION {[1..k -> Vocabulary] : k \in 1..MaxWords}
C9Prompt ==
    Join(<<WordCan, WordYou, WordPlease, WordShow, WordMe, WordMy, WordEC2,
           WordInstances>>)
TwelveKeyWords ==
    Join([k \in 1..12 |-> IF k % 2 = 0 THEN WordList ELSE WordInstances])
LongFiller == Join([k \in 1..40 |-> WordMe])
Prompts ==
    {Join(ws) : ws \in WordLists} \cup {C9Prompt, TwelveKeyWords, LongFiller}

QueryStart == prompt \in Prompts /\ query = <<>> /\ qPc = "ready"

\* agent_runtime.py:109  search_query = extract_tool_query(prompt)
ExtractToolQuery ==
    /\ qPc = "ready"
    /\ query' = extract_tool_query(prompt)
    /\ qPc' = "done"
    /\ UNCHANGED prompt

Tokens(chars) == {WordString(Split(chars)[k]) : k \in 1..Len(Split(chars))}

\* C9 as stated: for 'Can you please show me my EC2 instances' the tokens
\* of the query exclude can, you, please, show, me and my and include ec2
\* and instances; for every prompt, no stop-word token of the prompt is a
\* token of the query.
C9_StopWordsRemoved ==
    qPc = "done" =>
        /\ prompt = C9Prompt =>
              /\ Tokens(query) \cap {"can", "you", "please", "show", "me", "my"} = {}
              /\ {"ec2", "instances"} \subseteq Tokens(query)
        /\ Tokens(prompt) \cap StopWords \cap Tokens(query) = {}

\* C9, amended: for 'Can you please show me my EC2 instances' only two
\* words survive the filter and the prompt is returned unchanged.  In
\* general, when at least three lowercased words of the prompt are longer
\* than two characters and not stop words, the query is the first ten of
\* them joined by single blanks, so none of its tokens is a stop word;
\* otherwise the query is the first 100 characters of the prompt as given.
C9_StopWordsRemovedFromThreeKeyWords ==
    qPc = "done" =>
        /\ prompt = C9Prompt => query = prompt
        /\ Len(KeyWords(prompt)) >= 3 =>
              /\ Tokens(query) \cap StopWords = {}
              /\ Split(query) = Prefix(KeyWords(prompt), 10)
              /\ query = Lower(query)
              /\ \A k \in 1..Len(query) - 1 :
                    ~(IsSpace(query[k]) /\ IsSpace(query[k + 1]))
        /\ Len(KeyWords(prompt)) < 3 => query = Prefix(prompt, 100)

\* C9 witness: the function has returned for the prompt of the claim, and
\* the query still holds its stop words and the upper-case EC2.
C9_Witness ==
    /\ qPc = "done" /\ prompt = C9Prompt
    /\ {"you", "please", "show", "me", "my", "EC2"} \subseteq Tokens(query)

\* The tokens of a lowercased prompt that survive: not a stop word, three
\* characters or more, by their positions in the prompt.
Surviving(tokens) ==
    {k \in 1..Len(tokens) :
        WordString(tokens[k]) \notin StopWords /\ Len(tokens[k]) >= 3}

\* The n-th element of a set of positions, in increasing order.
NthOf(positions, n) ==
    CHOOSE k \in positions : Cardinality({m \in positions : m <= k}) = n

Least(m, n) == IF m < n THEN m ELSE n

QueryOfSurvivors(raw, tokens, kept, result) ==
    IF Cardinality(kept) < 3
    THEN /\ Len(result) = Least(Len(raw), 100)
         /\ \A k \in 1..Len(result) : result[k] = raw[k]
    ELSE /\ Len(Split(result)) = Least(Cardinality(kept), 10)
         /\ \A n \in 1..Len(Split(result)) :
               Split(result)[n] = tokens[NthOf(kept, n)]
         /\ ~IsSpace(result[1]) /\ ~IsSpace(result[Len(result)])
         /\ \A k \in 1..Len(result) :
               IsSpace(result[k])
                   => result[k] = " " /\ ~IsSpace(result[k + 1])

\* C24: for every prompt, extract_tool_query lowercases it, splits it on
\* whitespace and keeps the tokens that are not stop words and have at least
\* three characters; with fewer than three survivors the result is the first
\* 100 characters of the raw prompt, otherwise the first ten survivors in
\* prompt order joined by single spaces.
C24_FirstTenSurvivorsOrRawPrefix ==
    qPc = "done" =>
        \A tokens \in {Split(Lower(prompt))} :
            QueryOfSurvivors(prompt, tokens, Surviving(tokens), query)

\* C24 witness: a prompt of twelve surviving words gave a query of ten, and
\* a prompt of more than 100 characters without survivors is one of the
\* prompts.
C24_Witness ==
    /\ qPc = "done" /\ prompt = TwelveKeyWords
    /\ Len(Split(query)) = 10 /\ Len(Split(prompt)) = 12
    /\ Len(LongFiller) > 100

-----------------------------------------------------------------------------
(* Handlers that notify: alert creation (lambda_invoke_handler.py) and the  *)
(* completion of an execution (lambda_execution_handler.py), one external   *)
(* call per step                                                            *)

Channels == {"sns", "teams", "slack"}
ChannelStates == {"ok", "fail", "unconfigured"}

\* lambda_invoke_handler.py:732-761  SNS, then Teams, then Slack;
\* lambda_execution_handler.py:516-540  Teams, then Slack, then SNS
ChannelOrder(handler) ==
    IF handler = "create" THEN <<"sns", "teams", "slack">>
    ELSE <<"teams", "slack", "sns">>

\* A run: which handler, whether the event carries service_name (creation),
\* whether the agent call, the S3 upload and the table write work, and the
\* state of each channel.
NotifyRequests ==
    [handler : {"create", "complete"}, service_name : BOOLEAN,
     agent : {"ok", "fail"}, s3 : ChannelStates, store : ChannelStates,
     channel : [Channels -> ChannelStates]]

NAt(at, k) == [at |-> at, k |-> k]

NotifyStart ==
    /\ nReq \in NotifyRequests
    /\ nPc = (IF nReq.handler = "create" THEN NAt("validate", 0)
              ELSE NAt("store", 0))
    /\ nLog = <<>>
    /\ nResp = 0

NCall(fn, result) == nLog' = Append(nLog, [fn |-> fn, result |-> result])

\* What a helper wrapped in try/except reports: nothing is sent when its
\* environment variable is missing, False when the call raises.
Outcome(state) ==
    IF state = "ok" THEN "done"
    ELSE IF state = "fail" THEN "failed" ELSE "not configured"

\* lambda_invoke_handler.py:682-688  service_name is required
NValidate ==
    /\ nPc = NAt("validate", 0)
    /\ IF nReq.service_name
       THEN nPc' = NAt("analyse", 0) /\ UNCHANGED nResp
       ELSE nPc' = NAt("done", 0) /\ nResp' = 400
    /\ UNCHANGED <<nReq, nLog>>

\* lambda_invoke_handler.py:697-705  invoke_agent_for_analysis, which returns
\* (None, None) on every failure
NAnalyse ==
    /\ nPc = NAt("analyse", 0)
    /\ NCall("invoke_agent_for_analysis", Outcome(nReq.agent))
    /\ nPc' = NAt("upload", 0)
    /\ UNCHANGED <<nReq, nResp>>

\* lambda_invoke_handler.py:708-710  upload_analysis_to_s3
NUpload ==
    /\ nPc = NAt("upload", 0)
    /\ NCall("upload_analysis_to_s3", Outcome(nReq.s3))
    /\ nPc' = NAt("store", 0)
    /\ UNCHANGED <<nReq, nResp>>

\* lambda_invoke_handler.py:713-726  store_alert_in_dynamodb;
\* lambda_execution_handler.py:102-113  update_execution_status and
\* upload_execution_results
NStore ==
    /\ nPc = NAt("store", 0)
    /\ nLog' = IF nReq.handler = "create"
               THEN Append(nLog, [fn |-> "store_alert_in_dynamodb",
                                  result |-> Outcome(nReq.store)])
               ELSE nLog \o <<[fn |-> "update_execution_status",
                               result |-> Outcome(nReq.store)],
                              [fn |-> "upload_execution_results",
                               result |-> Outcome(nReq.s3)]>>
    /\ nPc' = NAt("send", 1)
    /\ UNCHANGED <<nReq, nResp>>

\* A sender whose failure is not caught: the exception reaches the handler's
\* except clause, which returns 500.
NSendRaising(k) ==
    /\ nPc = NAt("send", k)
    /\ LET c == ChannelOrder(nReq.handler)[k] IN
       /\ NCall(c, Outcome(nReq.channel[c]))
       /\ IF nReq.channel[c] = "fail"
          THEN nPc' = NAt("done", 0) /\ nResp' = 500
          ELSE /\ nPc' = IF k < 3 THEN NAt("send", k + 1) ELSE NAt("return", 0)
               /\ UNCHANGED nResp
    /\ UNCHANGED nReq

\* lambda_invoke_handler.py:408-646, lambda_execution_handler.py:543-789
\* the k-th sender: returns False when its channel is not configured or the
\* call raises, and the handler does not look at what it returns
NSend(k) ==
    /\ nPc = NAt("send", k)
    /\ LET c == ChannelOrder(nReq.handler)[k] IN
       NCall(c, Outcome(nReq.channel[c]))
    /\ nPc' = IF k < 3 THEN NAt("send", k + 1) ELSE NAt("return", 0)
    /\ UNCHANGED <<nReq, nResp>>

\* lambda_invoke_handler.py:763-775, lambda_execution_handler.py:124-135
NReturn ==
    /\ nPc = NAt("return", 0)
    /\ nPc' = NAt("done", 0)
    /\ nResp' = 200
    /\ UNCHANGED <<nReq, nLog>>

LogIndexes(fns) == {i \in 1..Len(nLog) : nLog[i].fn \in fns}

StoreCalls == {"store_alert_in_dynamodb", "update_execution_status"}

\* C12: whatever channels fail or are not configured, every channel's
\* sender is called once, the record write is called before the first
\* sender, and the handler returns the 200 it returns when all succeed.
C12_ChannelsIndependent ==
    /\ \A i \in LogIndexes(Channels) :
          \E j \in LogIndexes(StoreCalls) : j < i
    /\ \A i, j \in LogIndexes(Channels) : nLog[i].fn = nLog[j].fn => i = j
    /\ (nPc.at = "done" /\ nResp # 400) =>
          /\ nResp = 200
          /\ \A c \in Channels : LogIndexes({c}) # {}

\* C12 witness: a run has returned although two channels failed and the
\* third is not configured.
C12_Witness ==
    /\ nPc.at = "done" /\ nResp = 200
    /\ \E c \in Channels : nReq.channel[c] = "unconfigured"
    /\ Cardinality({c \in Channels : nReq.channel[c] = "fail"}) = 2
    /\ Cardinality(LogIndexes(Channels)) = 3

-----------------------------------------------------------------------------
(* poll_ingestion and the polling branch of its caller                     *)
(* (src/assets/ingest_lambda/lambda_handler.py)                            *)

\* What one get_ingestion_job call can give: a job status, a ClientError,
\* or another exception (e.g. no connection).
RunningStatuses == {"STARTING", "IN_PROGRESS"}
TerminalStatuses == {"SUCCEEDED", "COMPLETED", "FAILED", "CANCELLED"}
QueryOutcomes ==
    RunningStatuses \cup TerminalStatuses \cup {"ClientError", "OtherError"}

\* lambda_handler.py:21-22  POLL_INTERVAL_SECONDS, POLL_MAX_RETRIES
PollConfigs == [interval : {1, 5}, retries : 0..MaxRetries]

NoResponse == [statusCode |-> 0, body |-> ""]

\* lambda_handler.py:147-149  the handler has started the job and calls
\* poll_ingestion
PollStart ==
    /\ pollCfg \in PollConfigs
    /\ attempt = 0 /\ queries = <<>> /\ sleeps = 0
    /\ pollPc = "loop" /\ pollResp = NoResponse

PollReturn(statusCode, body) ==
    /\ pollPc' = "done"
    /\ pollResp' = [statusCode |-> statusCode, body |-> body]

\* A loop that repeats an attempt whose query failed, without counting it.
PollQueryRepeating(outcome) ==
    /\ pollPc = "loop" /\ attempt < pollCfg.retries
    /\ attempt' = IF outcome = "ClientError" THEN attempt ELSE attempt + 1
    /\ queries' = Append(queries, outcome)
    /\ IF outcome = "OtherError"
       THEN PollReturn(500, "polling_failed")
       ELSE IF outcome \in TerminalStatuses
       THEN PollReturn(200, outcome)
       ELSE pollPc' = "sleep" /\ UNCHANGED pollResp
    /\ UNCHANGED <<pollCfg, sleeps>>

\* lambda_handler.py:59-78  one iteration up to its sleep: the query, and the
\* return on a terminal status; :150-151, 155-157  what the handler makes of
\* the return and of an exception that is not a ClientError
PollQuery(outcome) ==
    /\ pollPc = "loop" /\ attempt < pollCfg.retries
    /\ attempt' = attempt + 1
    /\ queries' = Append(queries, outcome)
    /\ IF outcome = "OtherError"
       THEN PollReturn(500, "polling_failed")
       ELSE IF outcome \in TerminalStatuses
       THEN PollReturn(200, outcome)
       ELSE pollPc' = "sleep" /\ UNCHANGED pollResp
    /\ UNCHANGED <<pollCfg, sleeps>>

\* lambda_handler.py:68-69, 80  time.sleep(interval), then the next iteration
PollSleep ==
    /\ pollPc = "sleep"
    /\ sleeps' = sleeps + pollCfg.interval
    /\ pollPc' = "loop"
    /\ UNCHANGED <<pollCfg, attempt, queries, pollResp>>

\* lambda_handler.py:82, 152-154  the loop is exhausted: TimeoutError, which
\* the handler turns into 202
PollTimeout ==
    /\ pollPc = "loop" /\ attempt >= pollCfg.retries
    /\ PollReturn(202, "started, poll timed out, job still running")
    /\ UNCHANGED <<pollCfg, attempt, queries, sleeps>>

PollBounded ==
    /\ Len(queries) = attempt /\ attempt <= pollCfg.retries
    /\ \A k \in 1..(Len(queries) - 1) :
          queries[k] \in RunningStatuses \cup {"ClientError"}
    /\ sleeps = pollCfg.interval
                  * (IF pollPc \in {"loop", "idle"} \/ pollResp.statusCode = 202
                     THEN Len(queries) ELSE Len(queries) - 1)
    /\ pollPc = "done" =>
          \/ /\ pollResp.statusCode = 200
             /\ Last(queries) \in TerminalStatuses
             /\ pollResp.body = Last(queries)
          \/ /\ pollResp.statusCode = 500 /\ Last(queries) = "OtherError"
          \/ /\ pollResp.statusCode = 202
             /\ Len(queries) = pollCfg.retries
             /\ \A k \in 1..Len(queries) :
                   queries[k] \in RunningStatuses \cup {"ClientError"}

\* C16: poll_ingestion terminates after at most `retries` queries, failed
\* queries included, having slept the interval after each query that did
\* not end it; it returns at the first terminal status (200 with the job),
\* and when the attempts run out the handler answers 202, which no job that
\* ended in failure and no polling error gets.
C16_PollTerminates ==
    /\ []PollBounded
    /\ <>(pollPc = "done")

\* C16 witness: three attempts, one of them a failed query, none of them
\* terminal, and the handler has answered 202.
C16_Witness ==
    /\ pollPc = "done" /\ pollResp.statusCode = 202
    /\ Len(queries) = 3
    /\ \E k \in 1..Len(queries) : queries[k] = "ClientError"
    /\ sleeps = 3 * pollCfg.interval

-----------------------------------------------------------------------------
(* parse_execution_log (src/src/lambdas/lambda_execution_handler.py and    *)
(* lambda_execution_handler_copy.py, the same text in both)                *)

\* Lines in a transcript.
MaxLines == 4

\* The keywords parse_execution_log looks for.
KwAction == <<"a", "c", "t", "i", "o", "n", ":">>
KwExecuting == <<"e", "x", "e", "c", "u", "t", "i", "n", "g", ":">>
KwSuccess == <<"s", "u", "c", "c", "e", "s", "s">>
KwFail == <<"f", "a", "i", "l">>
KwError == <<"e", "r", "r", "o", "r">>
KwSkip == <<"s", "k", "i", "p">>

\* The check marks and crosses it looks for, each one character.
CheckMark == "U+2713"
CheckBox == "U+2705"
BallotX == "U+2717"
CrossMark == "U+274C"

\* Lines of a transcript, as the characters they are made of.
LineRestart ==
    <<"A", "c", "t", "i", "o", "n", ":", " ", "r", "e", "s", "t", "a", "r",
      "t", " ", "s", "e", "r", "v", "i", "c", "e">>
LineClear ==
    <<"A", "c", "t", "i", "o", "n", ":", " ", "c", "l", "e", "a", "r", " ",
      "c", "a", "c", "h", "e">>
LineExecuting ==
    <<" ", " ", "E", "X", "E", "C", "U", "T", "I", "N", "G", ":", " ", "s",
      "c", "a", "l", "e", " ", "o", "u", "t", " ">>
LineSuccess == <<"S", "u", "c", "c", "e", "s", "s">>
LineFailed == <<"F", "a", "i", "l", "e", "d">>
LineSkipped == <<"s", "t", "e", "p", " ", "s", "k", "i", "p", "p", "e", "d">>
LineUnsuccessful ==
    <<"u", "n", "s", "u", "c", "c", "e", "s", "s", "f", "u", "l", ",", " ",
      "e", "r", "r", "o", "r">>
LineDone == <<"d", "o", "n", "e">>
LineCross == <<"x", " ", BallotX>>

\* lambda_execution_handler.py:347  execution_response.split("\n"): the
\* pieces between line feeds, empty ones included
LineFeeds(text) == {k \in 1..Len(text) : text[k] = "\n"}
SplitLines(text) ==
    [n \in 1..(Cardinality(LineFeeds(text)) + 1) |->
        LET from == IF n = 1 THEN 1
                    ELSE 1 + CHOOSE k \in LineFeeds(text) :
                            Cardinality({m \in LineFeeds(text) : m <= k}) = n - 1
            upto == IF n = Cardinality(LineFeeds(text)) + 1 THEN Len(text)
                    ELSE (CHOOSE k \in LineFeeds(text) :
                            Cardinality({m \in LineFeeds(text) : m <= k}) = n) - 1
        IN  SubSeq(text, from, upto)]

\* lambda_execution_handler.py:359  line.strip()
Strip(line) ==
    LET inked == {k \in 1..Len(line) : ~IsSpace(line[k])}
    IN  IF inked = {} THEN <<>>
        ELSE SubSeq(line, CHOOSE k \in inked : \A m \in inked : k <= m,
                          CHOOSE k \in inked : \A m \in inked : m <= k)

\* lambda_execution_handler.py:351-354  the line starts an action
IsMarker(line) ==
    LET line_lower == Lower(line)
    IN  ContainsSub(line_lower, KwAction) \/ ContainsSub(line_lower, KwExecuting)

\* lambda_execution_handler.py:366-378  the status a line gives, "" if none
StatusOf(line) ==
    LET line_lower == Lower(line)
    IN  IF \/ ContainsSub(line_lower, KwSuccess)
           \/ ContainsSub(line, <<CheckMark>>) \/ ContainsSub(line, <<CheckBox>>)
        THEN "success"
        ELSE IF \/ ContainsSub(line_lower, KwFail)
                \/ ContainsSub(line_lower, KwError)
                \/ ContainsSub(line, <<BallotX>>) \/ ContainsSub(line, <<CrossMark>>)
        THEN "failed"
        ELSE IF ContainsSub(line_lower, KwSkip) THEN "skipped"
        ELSE ""

\* lambda_execution_handler.py:340-343  the empty log
EmptyLog ==
    [actions |-> <<>>,
     summary |-> [total_actions |-> 0, successful |-> 0, failed |-> 0,
                  skipped |-> 0]]

Count(log, status) ==
    IF status = "success"
    THEN [log EXCEPT !.summary.successful = @ + 1]
    ELSE IF status = "failed"
    THEN [log EXCEPT !.summary.failed = @ + 1]
    ELSE IF status = "skipped"
    THEN [log EXCEPT !.summary.skipped = @ + 1]
    ELSE log

\* A loop body that counts a status only for an action that has none yet.
ParseLineFirstStatus(line, state) ==
    IF IsMarker(line)
    THEN [current |-> <<[description |-> Strip(line), status |-> "unknown"]>>,
          log |-> [state.log EXCEPT !.actions = @ \o state.current]]
    ELSE IF state.current # <<>> /\ StatusOf(line) # ""
            /\ state.current[1].status = "unknown"
    THEN [current |-> <<[state.current[1] EXCEPT !.status = StatusOf(line)]>>,
          log |-> Count(state.log, StatusOf(line))]
    ELSE state

\* lambda_execution_handler.py:350-378  the loop body: current_action (none
\* or one) and execution_log after the line.  The timestamp of an action is
\* the wall clock and is left out.
ParseLine(line, state) ==
    IF IsMarker(line)
    THEN [current |-> <<[description |-> Strip(line), status |-> "unknown"]>>,
          log |-> [state.log EXCEPT !.actions = @ \o state.current]]
    ELSE IF state.current # <<>> /\ StatusOf(line) # ""
    THEN [current |-> <<[state.current[1] EXCEPT !.status = StatusOf(line)]>>,
          log |-> Count(state.log, StatusOf(line))]
    ELSE state

\* lambda_execution_handler.py:349-350  for line in lines
RECURSIVE ParseLines(_, _)
ParseLines(lines, state) ==
    IF lines = <<>> THEN state
    ELSE ParseLines(Tail(lines), ParseLine(Head(lines), state))

\* lambda_execution_handler.py:335-390  parse_execution_log
parse_execution_log(execution_response) ==
    LET final == ParseLines(SplitLines(execution_response),
                            [current |-> <<>>, log |-> EmptyLog])
        actions == final.log.actions \o final.current
    IN  [final.log EXCEPT !.actions = actions,
                          !.summary.total_actions = Len(actions)]

\* The transcripts considered: up to MaxLines lines of the vocabulary,
\* joined by line feeds.
TranscriptLines ==
    {LineRestart, LineClear, LineExecuting, LineSuccess, LineFailed,
     LineSkipped, LineUnsuccessful, LineDone, LineCross}

RECURSIVE JoinLines(_)
JoinLines(lines) ==
    IF lines = <<>> THEN <<>>
    ELSE IF Len(lines) = 1 THEN Head(lines)
    ELSE Head(lines) \o <<"\n">> \o JoinLines(Tail(lines))

Transcripts ==
    {JoinLines(ls) : ls \in UNION {[1..k -> TranscriptLines] : k \in 1..MaxLines}}

C17Transcript == JoinLines(<<LineRestart, LineSuccess, LineClear, LineFailed>>)

ParseStart ==
    /\ callFn = "parse_execution_log"
    /\ callArg \in Transcripts
    /\ callRet = <<>> /\ callPc = "ready"

\* lambda_execution_handler.py:207  execution_log = parse_execution_log(...)
ParseExecutionLog ==
    /\ callPc = "ready" /\ callFn = "parse_execution_log"
    /\ callRet' = parse_execution_log(callArg)
    /\ callPc' = "done"
    /\ UNCHANGED <<callFn, callArg>>

\* What a transcript says, read off its lines.
MarkersOf(lines) == {i \in 1..Len(lines) : IsMarker(lines[i])}
NthMarker(markers, k) ==
    CHOOSE m \in markers : Cardinality({j \in markers : j <= m}) = k
\* the status lines of the action that starts at line m: after its marker,
\* before the next one
StatusLines(lines, markers, m) ==
    {i \in (m + 1)..Len(lines) :
        /\ \A j \in markers : ~(m < j /\ j <= i)
        /\ StatusOf(lines[i]) # ""}
FromFirstMarker(lines, markers) ==
    SubSeq(lines, CHOOSE m \in markers : \A j \in markers : m <= j, Len(lines))

ParsedAsRead(lines, markers, ret) ==
    /\ Len(ret.actions) = Cardinality(markers)
    /\ ret.summary.total_actions = Cardinality(markers)
    /\ \A k \in 1..Len(ret.actions) :
        \A m \in {NthMarker(markers, k)} :
        \A status \in {StatusLines(lines, markers, m)} :
            /\ ret.actions[k].description = Strip(lines[m])
            /\ ret.actions[k].status =
                IF status = {} THEN "unknown"
                ELSE StatusOf(lines[CHOOSE i \in status : \A j \in status : j <= i])
            /\ ret.actions[k].status = "unknown" <=> status = {}
    /\ IF markers = {} THEN ret = EmptyLog
       ELSE ret = parse_execution_log(JoinLines(FromFirstMarker(lines, markers)))

\* C17: parse_execution_log yields one action per line that contains
\* 'action:' or 'executing:' in any case, in order of appearance, and
\* total_actions is the number of such lines; a status line after a marker
\* sets that action's status by the first keyword class that matches the
\* line (success before failed before skipped); an action without a status
\* line stays 'unknown'; the lines before the first marker change nothing;
\* and the transcript 'Action: restart service / Success / Action: clear
\* cache / Failed' gives total 2, successful 1, failed 1, skipped 0.
C17_OneActionPerMarker ==
    callPc = "done" =>
        /\ \A lines \in {SplitLines(callArg)} :
            \A markers \in {MarkersOf(lines)} :
                ParsedAsRead(lines, markers, callRet)
        /\ StatusOf(LineUnsuccessful) = "success"
        /\ StatusOf(LineCross) = "failed"
        /\ callArg = C17Transcript =>
            /\ callRet.summary = [total_actions |-> 2, successful |-> 1,
                                  failed |-> 1, skipped |-> 0]
            /\ callRet.actions =
                <<[description |-> LineRestart, status |-> "success"],
                  [description |-> LineClear, status |-> "failed"]>>

\* a transcript with a line before the first marker, an action with a status
\* line and an action with none
C17_Witness ==
    /\ callPc = "done"
    /\ callArg = JoinLines(<<LineSuccess, LineExecuting, LineFailed, LineClear>>)
    /\ callRet.summary.total_actions = 2
    /\ callRet.summary.successful = 0
    /\ callRet.actions[1].status = "failed"
    /\ callRet.actions[2].status = "unknown"

-----------------------------------------------------------------------------
(* The tools of the agent of a turn (src/src/agent_runtime.py,             *)
(* execute_agent_streaming, and src/src/components/gateway.py, tool_search) *)

\* Tools the gateway's semantic search returns.
MaxTools == 11

\* agent_runtime.py:117  searched_tools[:10]
ToolLimit == 10

\* agent_runtime.py:79,126,147  the local tools, in list order
LocalTools ==
    <<[kind |-> "local", name |-> "get_current_time"],
      [kind |-> "local", name |-> "echo_message"],
      [kind |-> "local", name |-> "use_aws"],
      [kind |-> "local", name |-> "handoff_to_user"]>>

\* gateway.py:439  an entry of toolResp["result"]["structuredContent"]["tools"];
\* a malformed one lacks the inputSchema key
SearchedTool(name) == [name |-> name, inputSchema |-> TRUE]
MalformedTool == [name |-> "cloudwatch_get_metric", inputSchema |-> FALSE]
SearchedToolNames == {"ns___ec2_list_instances", "ns___s3_list_buckets"}

\* gateway.py:431-440  what tool_search returns, in ranking order: any list
\* of well-formed tools, or a full list with one malformed entry
Rankings ==
    UNION {[1..n -> {SearchedTool(name) : name \in SearchedToolNames}] :
            n \in 0..MaxTools}
    \cup {[k \in 1..MaxTools |->
            IF k = p THEN MalformedTool
            ELSE SearchedTool("ns___ec2_list_instances")] : p \in 1..MaxTools}

\* The whole ranking, without the slice.
WholeRanking(searched_tools) == searched_tools

\* agent_runtime.py:117  searched_tools[:10]
FirstTen(searched_tools) ==
    SubSeq(searched_tools, 1,
           IF Len(searched_tools) < ToolLimit THEN Len(searched_tools)
           ELSE ToolLimit)

\* agent_runtime.py:118-123  MCPTool(name=..., description=..., inputSchema=...)
\* raises KeyError on a tool without the key
ConvertRaises(searched_tools) ==
    \E k \in 1..Len(FirstTen(searched_tools)) :
        ~FirstTen(searched_tools)[k].inputSchema

\* agent_runtime.py:116-124  tools
MCPAgentTools(searched_tools) ==
    [k \in 1..Len(FirstTen(searched_tools)) |->
        [kind |-> "mcp", name |-> FirstTen(searched_tools)[k].name]]

\* agent_runtime.py:126-129  all_tools
all_tools(searched_tools) == LocalTools \o MCPAgentTools(searched_tools)

\* The turns considered: whether the gateway and OAuth are configured,
\* whether a token is obtained, whether the search call raises and what it
\* returns.
ToolTurns ==
    [mcp : BOOLEAN, token : BOOLEAN, search_raises : BOOLEAN,
     searched_tools : Rankings]

ToolTurnStart ==
    /\ callFn = "execute_agent_streaming"
    /\ callArg \in ToolTurns
    /\ callRet = <<>> /\ callPc = "ready"

\* agent_runtime.py:77-80  no gateway or no OAuth: the local agent
BuildLocalAgent ==
    /\ callPc = "ready" /\ callFn = "execute_agent_streaming"
    /\ ~callArg.mcp
    /\ callRet' = LocalTools
    /\ callPc' = "local"
    /\ UNCHANGED <<callFn, callArg>>

\* agent_runtime.py:91-134  token, search, conversion and the gateway agent
BuildGatewayAgent ==
    /\ callPc = "ready" /\ callFn = "execute_agent_streaming"
    /\ callArg.mcp /\ callArg.token /\ ~callArg.search_raises
    /\ ~ConvertRaises(callArg.searched_tools)
    /\ callRet' = all_tools(callArg.searched_tools)
    /\ callPc' = "gateway"
    /\ UNCHANGED <<callFn, callArg>>

\* agent_runtime.py:144-148  anything raised in the try: the fallback agent
BuildFallbackAgent ==
    /\ callPc = "ready" /\ callFn = "execute_agent_streaming"
    /\ callArg.mcp
    /\ \/ ~callArg.token
       \/ callArg.search_raises
       \/ ConvertRaises(callArg.searched_tools)
    /\ callRet' = LocalTools
    /\ callPc' = "fallback"
    /\ UNCHANGED <<callFn, callArg>>

\* C18: whatever the search returns, the agent of a turn gets the four local
\* tools and at most 10 gateway tools, the first 10 of the ranking in ranking
\* order, so never more than 14 tools.
C18_AtMostFourteenTools ==
    callPc \in {"local", "gateway", "fallback"} =>
        /\ Len(callRet) <= 14
        /\ SubSeq(callRet, 1, 4) = LocalTools
        /\ Len(callRet) - 4 <= 10
        /\ \A k \in 5..Len(callRet) :
            /\ callRet[k].kind = "mcp"
            /\ callRet[k].name = callArg.searched_tools[k - 4].name
        /\ callPc = "gateway" =>
            \A k \in 1..Len(callArg.searched_tools) :
                k <= 10 => Len(callRet) >= k + 4

\* the search returned more than ten tools and the gateway agent was built
C18_Witness ==
    /\ callPc = "gateway"
    /\ Len(callArg.searched_tools) = 11
    /\ Len(callRet) = 14
    /\ callRet[14].name = "ns___s3_list_buckets"
    /\ callArg.searched_tools[11].name = "ns___ec2_list_instances"

-----------------------------------------------------------------------------
(* Calls of format_diy_response and extract_content_from_event             *)
(* (src/src/utils/responses.py) on single events                           *)

\* Characters in the text of an event.
MaxText == 2

TextAlphabet == {"a", "n", "\\", "\"", "'", "\n"}
Texts == UNION {[1..n -> TextAlphabet] : n \in 0..MaxText}

ToolNames ==
    {PyNone, <<"use_aws">>,
     <<"n", "s", "_", "_", "_", "ec2_list_instances">>,
     <<"a", "_", "_", "_", "b", "_", "_", "_", "c">>,
     <<"x", "_", "_", "_", "_", "y">>}

\* a field of n characters
Xs(n) == [k \in 1..n |-> "x"]
Notes == {Xs(134), Xs(135), Xs(170)}

\* The events considered: every shape with every text and tool name it can
\* hold, and every shape with a long field beside them.
FormatEvents ==
    {[shape |-> shape, text |-> text, name |-> <<"">>, id |-> "", note |-> <<>>] :
        shape \in {"contentBlockDelta", "delta_attribute"}, text \in Texts}
    \cup {[shape |-> "contentBlockStart", text |-> <<>>, name |-> name,
           id |-> "t2", note |-> <<>>] : name \in ToolNames}
    \cup {[shape |-> "contentBlockDelta+contentBlockStart", text |-> text,
           name |-> name, id |-> "t2", note |-> <<>>] :
            text \in Texts, name \in ToolNames}
    \cup {[shape |-> shape, text |-> <<>>, name |-> <<"">>, id |-> "",
           note |-> <<>>] : shape \in {"messageStop", "init_event_loop", "object"}}
    \cup {[shape |-> shape, text |-> text, name |-> <<"use_aws">>, id |-> "t2",
           note |-> note] :
            shape \in DictShapes \cup ObjectShapes,
            text \in {<<>>, <<"a">>}, note \in Notes}

FormatStart ==
    /\ callFn \in {"format_diy_response", "extract_content_from_event"}
    /\ callArg \in FormatEvents
    /\ callRet = <<>> /\ callPc = "ready"

\* responses.py:15-63  format_diy_response(event): the frame, or the
\* exception of the extraction raised again
FormatDiyResponse ==
    /\ callPc = "ready" /\ callFn = "format_diy_response"
    /\ IF ExtractRaises(callArg)
       THEN callRet' = <<>> /\ callPc' = "raised"
       ELSE callRet' = format_diy_response(callArg) /\ callPc' = "done"
    /\ UNCHANGED <<callFn, callArg>>

\* responses.py:138-245  extract_content_from_event(event)
ExtractContentFromEvent ==
    /\ callPc = "ready" /\ callFn = "extract_content_from_event"
    /\ IF ExtractRaises(callArg)
       THEN callRet' = <<>> /\ callPc' = "raised"
       ELSE callRet' = extract_content_from_event(callArg) /\ callPc' = "done"
    /\ UNCHANGED <<callFn, callArg>>

\* The payload the claim describes, from what the extraction returns.
PayloadOf(content_data) ==
    IF content_data.has_text
    THEN JObject(
            <<Member(<<"content">>, JString(content_data.content)),
              Member(<<"type">>, JString(<<"text_delta">>)),
              Member(<<"metadata">>, JObject(
                <<Member(<<"event_type">>, JString(content_data.event_type)),
                  Member(<<"has_formatting">>,
                         JBool(\E k \in 1..Len(content_data.content) :
                                    content_data.content[k] = "\n"))>>))>>)
    ELSE JObject(
            <<Member(<<"event">>, JString(content_data.raw_event)),
              Member(<<"type">>, JString(<<"event">>)),
              Member(<<"metadata">>, JObject(
                <<Member(<<"event_type">>, JString(content_data.event_type))>>))>>)

\* the frame is 'data: ' + JSON + two line feeds, the JSON holds no line
\* feed of its own, and parsing it gives the payload
RoundTrip(frame, content_data) ==
    /\ Len(frame) >= 8
    /\ SubSeq(frame, 1, 6) = <<"d", "a", "t", "a", ":", " ">>
    /\ SubSeq(frame, Len(frame) - 1, Len(frame)) = <<"\n", "\n">>
    /\ \A k \in 7..(Len(frame) - 2) : frame[k] # "\n"
    /\ \A parsed \in {json_loads(SubSeq(frame, 7, Len(frame) - 2))} :
        parsed.ok /\ parsed.value = PayloadOf(content_data)

\* C19 as stated: for every event format_diy_response(event) is 'data: ' +
\* JSON + two newlines, and the JSON parses to the payload built from
\* extract_content_from_event(event).
C19_EveryEventIsFramed ==
    (callFn = "format_diy_response" /\ callPc # "ready") =>
        /\ callPc = "done"
        /\ RoundTrip(callRet, extract_content_from_event(callArg))

\* C19, amended: for every event on which extract_content_from_event returns,
\* format_diy_response(event) is 'data: ' + JSON + two newlines and the JSON
\* parses to exactly the payload built from what the extraction returns
\* ({content, type 'text_delta', metadata {event_type, has_formatting}} when
\* has_text, else {event: raw_event, type 'event', metadata {event_type}});
\* on an event on which the extraction raises, format_diy_response raises.
C19_RoundTripWhereExtracted ==
    (callFn = "format_diy_response" /\ callPc # "ready") =>
        IF ExtractRaises(callArg) THEN callPc = "raised"
        ELSE /\ callPc = "done"
             /\ RoundTrip(callRet, extract_content_from_event(callArg))

\* a text with a quote and a backslash, which the JSON has to escape
C19_Witness ==
    /\ callFn = "format_diy_response" /\ callPc = "done"
    /\ callArg.shape = "contentBlockDelta"
    /\ callArg.text = <<"\"", "\\">>
    /\ Len(callRet) > 8

\* the text after the last '___' of a tool name
AfterLastSeparator(name) ==
    LET found == {p \in 1..(Len(name) - 2) :
                    name[p] = "_" /\ name[p + 1] = "_" /\ name[p + 2] = "_"}
    IN  IF found = {} THEN name
        ELSE SubSeq(name, 3 + CHOOSE p \in found : \A q \in found : q <= p,
                    Len(name))

NestedText(event) ==
    HasEventKey(event) /\ HasDelta(event) /\ event.text # <<>>
IsToolStart(event) == HasEventKey(event) /\ HasStart(event)
AttributeText(event) == event.shape = "delta_attribute" /\ event.text # <<>>

\* what a call of extract_content_from_event returned, by the first case of
\* the four that applies to the event
ExtractedByPriority(event, ret) ==
    IF NestedText(event)
    THEN /\ ret.has_text
         /\ ret.content = process_text_formatting(event.text)
         /\ ~Contains(event.text, "\\") => ret.content = event.text
    ELSE IF IsToolStart(event)
    THEN /\ ret.has_text
         /\ ContainsSub(ret.content, <<"Using", " ">>)
         /\ ContainsSub(ret.content, AfterLastSeparator(event.name))
         /\ event.name = <<"n", "s", "_", "_", "_", "ec2_list_instances">> =>
                /\ ContainsSub(ret.content, <<"ec2_list_instances">>)
                /\ ~ContainsSub(ret.content, <<"n", "s", "_", "_", "_">>)
    ELSE IF AttributeText(event)
    THEN /\ ret.has_text
         /\ ret.content = process_text_formatting(event.text)
    ELSE /\ ~ret.has_text
         /\ ret.content = <<>>
         /\ Len(ret.raw_event) <= 203
         /\ ret.raw_event =
              IF Len(StrOf(event)) <= 200 THEN StrOf(event)
              ELSE SubSeq(StrOf(event), 1, 200) \o <<".", ".", ".">>

-----------------------------------------------------------------------------
(* _is_handoff_event over events of every shape (src/src/agent_runtime.py) *)

\* Pieces of text in one event.
MaxPieces == 2

\* "do you want to proceed", the phrase without its case and its ending
ProceedLower == SubSeq(Lower(Spelled(ConfirmPrompt)), 1, 22)
\* "Do you want to proceed?"
ProceedQuestion == SubSeq(Spelled(ConfirmPrompt), 1, 23)

TextPieces ==
    {Spelled(ConfirmPrompt), Spelled(MutativeNote), ProceedLower,
     ProceedQuestion, <<"o", "k", " ">>}

HandoffTexts ==
    UNION {{Flatten(pieces) : pieces \in [1..n -> TextPieces]} : n \in 0..MaxPieces}

HandoffNames ==
    {<<"handoff_to_user">>, <<"use_aws">>, <<"Handoff_To_User">>,
     <<"ns", "_", "_", "_", "handoff_to_user">>, PyNone}

\* Every shape of event with every text and tool name it can hold.
HandoffEvents ==
    {[shape |-> shape, text |-> text, name |-> <<"">>, id |-> "", note |-> <<>>] :
        shape \in {"contentBlockDelta", "delta_attribute"}, text \in HandoffTexts}
    \cup {ToolStart(name, "t1") : name \in HandoffNames}
    \cup {[shape |-> "contentBlockDelta+contentBlockStart", text |-> text,
           name |-> name, id |-> "t1", note |-> <<>>] :
            text \in HandoffTexts, name \in HandoffNames}
    \cup {[shape |-> shape, text |-> <<>>, name |-> <<"">>, id |-> "",
           note |-> <<>>] : shape \in {"messageStop", "init_event_loop", "object"}}

HandoffStart ==
    /\ callFn = "_is_handoff_event"
    /\ callArg \in HandoffEvents
    /\ callRet = <<>> /\ callPc = "ready"

\* agent_runtime.py:164-185  _is_handoff_event(event)
IsHandoffEventCall ==
    /\ callPc = "ready" /\ callFn = "_is_handoff_event"
    /\ callRet' = <<IsHandoffEvent(callArg)>>
    /\ callPc' = "done"
    /\ UNCHANGED <<callFn, callArg>>

HandoffReturned == callFn = "_is_handoff_event" /\ callPc = "done"

\* What the detector is said to compute: a dict with an inner event that is
\* a tool start named handoff_to_user, or a text delta holding 'do you want
\* to proceed' (in any case) or 'is potentially mutative'.
SaidToHandOff(event) ==
    /\ HasEventKey(event)
    /\ \/ HasStart(event) /\ event.name = <<"handoff_to_user">>
       \/ /\ HasDelta(event)
          /\ \/ ContainsSub(Lower(event.text), ProceedLower)
             \/ ContainsSub(event.text, Spelled(MutativeNote))

\* C22 as stated: _is_handoff_event(event) is true exactly for a dict whose
\* inner event is a tool start named handoff_to_user or a text delta whose
\* text contains 'do you want to proceed' or 'is potentially mutative'.
C22_AnyConfirmationWording ==
    HandoffReturned => callRet[1] = SaidToHandOff(callArg)

\* C22, amended: _is_handoff_event(event) is true exactly for a dict with an
\* inner event that either carries a tool start and names it
\* handoff_to_user, or carries no tool start and has a text delta containing
\* 'Do you want to proceed? [y/*]' or 'is potentially mutative' letter for
\* letter; a tool start decides alone, whatever text comes with it, and
\* every non-dict event and every dict without an inner event is refused.
C22_ExactPromptStartDecides ==
    HandoffReturned =>
        \A event \in {callArg} :
            callRet[1] =
               ( /\ event.shape \notin ObjectShapes
                 /\ event.shape # "init_event_loop"
                 /\ IF HasStart(event)
                    THEN event.name = <<"handoff_to_user">>
                    ELSE /\ HasDelta(event)
                         /\ \/ ContainsSub(event.text, Spelled(ConfirmPrompt))
                            \/ ContainsSub(event.text, Spelled(MutativeNote)) )

\* C22 witness: a text delta with the whole prompt after other text was
\* found to hand off, the prompt being the only thing in it that counts.
C22_Witness ==
    /\ HandoffReturned
    /\ callArg.shape = "contentBlockDelta"
    /\ callArg.text = <<"o", "k", " ">> \o Spelled(ConfirmPrompt)
    /\ callRet = <<TRUE>>

-----------------------------------------------------------------------------
(* OAuth set-up (src/src/components/auth.py)                               *)

\* Calls of get_m2m_token and setup_oauth in one process.
MaxTokenCalls == 3

AccessToken == "jwt"

\* How Cognito answers initiate_auth: with a token, with a ClientError
\* (get_cognito_jwt_token returns None, :95-97) or with another error.
CognitoOutcomes == {"token", "client_error", "error"}

\* What the configuration file gives when it is consulted (:118-125): a
\* client id, none, or an exception.
ConfigOutcomes == {"client_id", "no_client_id", "raises"}

AllSet(environ) == environ.username /\ environ.password /\ environ.client_id

OauthStart ==
    /\ oauthEnv \in [username : BOOLEAN, password : BOOLEAN, client_id : BOOLEAN]
    /\ oauthInitialized = FALSE /\ tokenGetter = "None"
    /\ cognitoCalls = 0 /\ tokenLog = <<>>

NoTokenReturned == [ret |-> "None", contacted |-> FALSE]

\* auth.py:100-143  get_m2m_token: the cached token (:104-108); with the
\* three variables set the block of :117-130 is skipped, 'region' (assigned
\* only at :125) is unbound at :136 and the exception is caught at :141;
\* otherwise the client id of the configuration is used, with username and
\* password from the environment
get_m2m_token(environ, initialized, getter, config, cognito) ==
    IF initialized /\ getter # "None"
    THEN [ret |-> getter, contacted |-> FALSE]
    ELSE IF AllSet(environ) THEN NoTokenReturned
    ELSE IF config = "raises" THEN NoTokenReturned
    ELSE IF ~environ.username \/ ~environ.password THEN NoTokenReturned
    ELSE IF config = "no_client_id" THEN NoTokenReturned
    ELSE [ret |-> IF cognito = "token" THEN AccessToken ELSE "None",
          contacted |-> TRUE]

TokenCall(fn, config, cognito, ret, contacted) ==
    [fn |-> fn, config |-> config, cognito |-> cognito,
     cached |-> oauthInitialized, ret |-> ret, contacted |-> contacted]

\* agent_runtime.py:92  access_token = get_m2m_token()
GetM2mToken(config, cognito) ==
    /\ Len(tokenLog) < MaxTokenCalls
    /\ LET r == get_m2m_token(oauthEnv, oauthInitialized, tokenGetter,
                              config, cognito)
       IN  /\ tokenLog' = Append(tokenLog,
                                 TokenCall("get_m2m_token", config, cognito,
                                           r.ret, r.contacted))
           /\ cognitoCalls' = cognitoCalls + (IF r.contacted THEN 1 ELSE 0)
    /\ UNCHANGED <<oauthEnv, oauthInitialized, tokenGetter>>

\* auth.py:151-168  setup_oauth
SetupOauth(config, cognito) ==
    /\ Len(tokenLog) < MaxTokenCalls
    /\ IF oauthInitialized
       THEN /\ tokenLog' = Append(tokenLog,
                                  TokenCall("setup_oauth", config, cognito,
                                            "True", FALSE))
            /\ UNCHANGED <<oauthInitialized, tokenGetter, cognitoCalls>>
       ELSE LET r == get_m2m_token(oauthEnv, oauthInitialized, tokenGetter,
                                   config, cognito)
            IN  /\ tokenLog' = Append(tokenLog,
                                      TokenCall("setup_oauth", config, cognito,
                                                IF r.ret # "None" THEN "True"
                                                ELSE "False", r.contacted))
                /\ cognitoCalls' = cognitoCalls + (IF r.contacted THEN 1 ELSE 0)
                /\ oauthInitialized' = (oauthInitialized \/ r.ret # "None")
                /\ tokenGetter' = IF r.ret # "None" THEN r.ret ELSE tokenGetter
    /\ UNCHANGED oauthEnv

\* auth.py:171-178  is_oauth_available
is_oauth_available == oauthInitialized /\ tokenGetter # "None"

TokenWhenCredentialsSet(call) ==
    /\ (AllSet(oauthEnv) /\ call.cognito = "token")
         => /\ call.fn = "get_m2m_token" => call.ret = AccessToken
            /\ call.fn = "setup_oauth" => call.ret = "True"
    /\ (call.fn = "get_m2m_token" /\ call.cached)
         => call.ret = AccessToken /\ ~call.contacted
    /\ (call.fn = "get_m2m_token" /\ call.ret = "None")
         => ~AllSet(oauthEnv) \/ call.cognito # "token"

\* C25: with COGNITO_USERNAME, COGNITO_PASSWORD and COGNITO_CLIENT_ID all
\* set and a Cognito that accepts them, get_m2m_token returns the access
\* token and setup_oauth makes OAuth available; once it is available,
\* get_m2m_token returns the cached token without a request to Cognito; it
\* returns None only with credentials missing or a failed authentication.
C25_TokenWhenCredentialsSet ==
    /\ \A k \in 1..Len(tokenLog) : TokenWhenCredentialsSet(tokenLog[k])
    /\ (\E k \in 1..Len(tokenLog) :
          /\ tokenLog[k].fn = "setup_oauth"
          /\ tokenLog[k].cognito = "token" /\ AllSet(oauthEnv))
         => is_oauth_available

-----------------------------------------------------------------------------
ActionsWith(ret, status) ==
    Cardinality({k \in 1..Len(ret.actions) : ret.actions[k].status = status})

\* C26: the summary of parse_execution_log agrees with its action list:
\* successful, failed and skipped are the numbers of actions whose final
\* status is success, failed and skipped, so their sum is at most
\* total_actions.
C26_SummaryCountsActions ==
    (callFn = "parse_execution_log" /\ callPc = "done") =>
        /\ callRet.summary.successful = ActionsWith(callRet, "success")
        /\ callRet.summary.failed = ActionsWith(callRet, "failed")
        /\ callRet.summary.skipped = ActionsWith(callRet, "skipped")
        /\ callRet.summary.successful + callRet.summary.failed
             + callRet.summary.skipped <= callRet.summary.total_actions

-----------------------------------------------------------------------------
(* store_alert_in_dynamodb (src/src/lambdas/lambda_invoke_handler.py)      *)

\* Keys in the metadata of an upstream event.
MaxMetaKeys == 2

\* lambda_invoke_handler.py:376-391  the fields every item has
CoreKeys ==
    {"alert_id", "timestamp", "service_name", "service_type", "issue_type",
     "error_details", "agent_session_id", "agent_analysis", "s3_analysis_url",
     "s3_analysis_key", "approval_status", "execution_status", "severity",
     "ttl"}

MetaKeys ==
    {"approval_status", "execution_status", "agent_session_id", "alert_id",
     "ttl", "team", "runbook"}
MetaValues == {"approved", "completed"}

\* event.get("metadata"): a dict, something that is not a dict, or None
Metadata ==
    {[kind |-> "dict", entries |-> entries] :
        entries \in UNION {[keys -> MetaValues] :
                             keys \in {ks \in SUBSET MetaKeys :
                                          Cardinality(ks) <= MaxMetaKeys}}}
    \cup {[kind |-> kind, entries |-> <<>>] : kind \in {"list", "None"}}

\* The arguments that vary: the session id of the analysis ("None" when the
\* analysis failed), the severity of the event and its metadata.
StoreArguments ==
    [agent_session_id : {"s1", "None"}, severity : {"high", "approved"},
     additional_metadata : Metadata]

\* lambda_invoke_handler.py:376-391  item = {...}; the ttl is the wall clock
\* plus seven days, the analysis is summarised and cut to 1000 characters
CoreItem(args) ==
    [alert_id |-> "a1", timestamp |-> "timestamp",
     service_name |-> "service_name", service_type |-> "service_type",
     issue_type |-> "issue_type", error_details |-> "error_details",
     agent_session_id |-> args.agent_session_id,
     agent_analysis |-> "summary[:1000]", s3_analysis_url |-> "s3_url",
     s3_analysis_key |-> "s3_key", approval_status |-> "pending",
     execution_status |-> "not_started", severity |-> args.severity,
     ttl |-> "now + 7 days"]

\* An item built with item.update(additional_metadata).
ItemUpdatedWithMetadata(args) ==
    LET meta == args.additional_metadata
        extra == IF meta.kind = "dict" THEN DOMAIN meta.entries ELSE {}
    IN  [key \in CoreKeys \cup extra |->
            IF key \in extra THEN meta.entries[key] ELSE CoreItem(args)[key]]

\* lambda_invoke_handler.py:376-397  the item put: the core fields, then the
\* keys of a dict metadata that are not in the item yet
Item(args) ==
    LET meta == args.additional_metadata
        extra == IF meta.kind = "dict" THEN DOMAIN meta.entries ELSE {}
    IN  [key \in CoreKeys \cup extra |->
            IF key \in CoreKeys THEN CoreItem(args)[key] ELSE meta.entries[key]]

StoreStart ==
    /\ callFn = "store_alert_in_dynamodb"
    /\ callArg \in StoreArguments
    /\ callRet = <<>> /\ callPc = "ready"

\* lambda_invoke_handler.py:350-404  store_alert_in_dynamodb: nothing is put
\* without DYNAMODB_ALERTS_TABLE or when put_item raises
StoreAlertInDynamodb ==
    /\ callPc = "ready" /\ callFn = "store_alert_in_dynamodb"
    /\ \E put \in BOOLEAN :
          callRet' = IF put THEN <<Item(callArg)>> ELSE <<>>
    /\ callPc' = "done"
    /\ UNCHANGED <<callFn, callArg>>

AlertPut ==
    callFn = "store_alert_in_dynamodb" /\ callPc = "done" /\ callRet # <<>>

StoredAsPending(args, item) ==
    /\ item.approval_status = "pending"
    /\ item.execution_status = "not_started"
    /\ [approval_status |-> item.approval_status,
        execution_status |-> item.execution_status,
        agent_session_id |-> item.agent_session_id]
         = NewAlert(args.agent_session_id)
    /\ \A key \in CoreKeys : item[key] = CoreItem(args)[key]
    /\ IF args.additional_metadata.kind = "dict"
       THEN /\ DOMAIN item = CoreKeys \cup DOMAIN args.additional_metadata.entries
            /\ \A key \in DOMAIN args.additional_metadata.entries \ CoreKeys :
                  item[key] = args.additional_metadata.entries[key]
       ELSE DOMAIN item = CoreKeys

\* C29: every item put by store_alert_in_dynamodb has approval_status
\* pending and execution_status not_started, whatever the event holds: the
\* keys of the metadata that collide with a core field are ignored, the
\* others are added with their values, and metadata that is not a dict adds
\* nothing.
C29_StoredPendingNotStarted ==
    AlertPut => StoredAsPending(callArg, callRet[1])

\* C29 witness: metadata with approval_status 'approved' and a team was
\* stored as a pending alert with that team.
C29_Witness ==
    /\ AlertPut
    /\ callArg.additional_metadata.kind = "dict"
    /\ DOMAIN callArg.additional_metadata.entries = {"approval_status", "team"}
    /\ callArg.additional_metadata.entries["approval_status"] = "approved"
    /\ callRet[1].approval_status = "pending"
    /\ callRet[1].team = callArg.additional_metadata.entries["team"]

-----------------------------------------------------------------------------
(* The alert workflow as a whole *)

(* Properties of the alert workflow *)

StoredAlerts == {a \in AlertIds : alerts[a] # NoAlert}

\* C2: however approval callbacks for one alert interleave, at most one of
\* them changes approval_status and at most one runs remediation; a second
\* successful write would overwrite a status that is already approved or
\* dismissed, since nothing sets it back to pending.
C2_SingleApprovalTransition ==
    /\ statusWrites <= 1
    /\ remediations <= 1

\* C3: in every reachable state of the alert store, an alert whose
\* execution_status is not not_started has approval_status approved.
C3_ExecutedOnlyIfApproved ==
    \A a \in StoredAlerts :
        alerts[a].execution_status # "not_started"
            => alerts[a].approval_status = "approved"

\* C4: of two approval callbacks delivered one after the other for a pending
\* alert, the first approves and returns success; the second (when it finds
\* the alert record) returns the 200 'already processed' response, runs no
\* remediation and leaves approval_status approved.
C4_SecondApprovalIsNoOp ==
    \A a \in StoredAlerts :
        ( /\ cb[1].pc = "done" /\ cb[1].action = "approve_remediation"
          /\ cb[1].resp = "200 Remediation approved and executed"
          /\ cb[2].pc = "done" /\ cb[2].action = "approve_remediation"
          /\ cb[2].afterOthers
          /\ cb[2].resp # "404 Alert not found or expired" )
        => /\ cb[2].resp = "200 already processed"
           /\ remediations = 1
           /\ alerts[a].approval_status = "approved"

\* C5: once approval_status is dismissed, no step of any handler runs
\* remediation or invokes the agent for execution, and approval_status
\* stays dismissed.
C5_DismissalIsTerminal ==
    [][\A a \in AlertIds :
          alerts[a].approval_status = "dismissed"
              => /\ alerts'[a].approval_status = "dismissed"
                 /\ remediations' = remediations
                 /\ agentExec' = agentExec]_vars

\* C7: a callback invocation gets past the signature check (and so may read
\* or change alert state, or run remediation) only for a request with both
\* headers, a timestamp at most 300 seconds from now and the right
\* signature; every other request ends with 401 and nothing else.
C7_OnlyAuthenticRequestsAct ==
    \A i \in 1..MaxCallbacks :
        (cb[i].pc # "idle" /\ ~cb[i].authentic)
            => (cb[i].pc = "done" /\ cb[i].resp = "401 Invalid signature")

ClientErrors ==
    {"400 No actions found", "400 Unknown action", "401 Invalid signature",
     "404 Alert not found or expired"}

\* C15: a callback whose body or payload cannot be parsed, or whose payload
\* has no actions, is rejected with a 4xx response before it reads or
\* writes anything.
C15_MalformedInputRejected ==
    \A i \in 1..MaxCallbacks :
        cb[i].payload \in {"unparseable", "no_actions"}
            => /\ cb[i].pc = "done"
               /\ cb[i].resp \in ClientErrors

ValidExecute(n) ==
    xinv[n].params.alert_id # "" /\ xinv[n].params.session_id # ""

\* C8 as stated: every valid /execute request without async=true ends with
\* 202 accepted and exactly one self-invocation carrying the same
\* parameters plus async=true.
C8_AlwaysAccepted ==
    \A n \in 1..Len(xinv) :
        (xinv[n].pc = "done" /\ ValidExecute(n) /\ ~xinv[n].params.async)
            => /\ xinv[n].resp = "202 accepted"
               /\ xinv[n].spawned = <<[xinv[n].params EXCEPT !.async = TRUE]>>

\* C8, amended: a valid /execute request without async=true never calls the
\* agent or writes to S3 itself; it attempts one asynchronous
\* self-invocation with the same parameters plus async=true and returns 202
\* accepted when that call succeeds, 500 with nothing triggered when it
\* raises.  An invocation with async=true calls execute_with_agent exactly
\* once and never triggers a self-invocation, so no chain of invocations is
\* longer than two.
C8_AcceptedOrFailedToTrigger ==
    \A n \in 1..Len(xinv) :
        /\ xinv[n].depth <= 2
        /\ ~xinv[n].params.async
             => /\ xinv[n].execCalls = 0 /\ xinv[n].s3Writes = 0
                /\ (xinv[n].pc = "done" /\ ValidExecute(n))
                     => \/ /\ xinv[n].resp = "202 accepted"
                           /\ xinv[n].spawned =
                                 <<[xinv[n].params EXCEPT !.async = TRUE]>>
                        \/ /\ xinv[n].resp = "500 Failed to trigger execution"
                           /\ xinv[n].spawned = <<>>
        /\ xinv[n].params.async
             => /\ xinv[n].spawned = <<>>
                /\ xinv[n].execCalls <= 1
                /\ (xinv[n].pc = "done" /\ ValidExecute(n))
                     => xinv[n].execCalls = 1

\* C8 witness: a request was accepted with 202 and the self-invocation it
\* triggered has run the agent, as the second and last step of its chain.
C8_Witness ==
    \E m, n \in 1..Len(xinv) :
        /\ xinv[m].origin = "http" /\ xinv[m].resp = "202 accepted"
        /\ xinv[n].origin = "self" /\ xinv[n].depth = 2
        /\ xinv[n].pc = "done" /\ xinv[n].execCalls = 1
        /\ asyncQueue = <<>>

-----------------------------------------------------------------------------
\* The recorded state of an alert and the steps the lifecycle allows:
\* creation as pending, approval or dismissal of a pending alert, the start
\* of the execution of an approved one, and its end.
Recorded(alert) == <<alert.approval_status, alert.execution_status>>

LifecycleSteps ==
    {<<Recorded(NoAlert), <<"pending", "not_started">> >>,
     << <<"pending", "not_started">>, <<"approved", "not_started">> >>,
     << <<"pending", "not_started">>, <<"dismissed", "not_started">> >>,
     << <<"approved", "not_started">>, <<"approved", "in_progress">> >>,
     << <<"approved", "in_progress">>, <<"approved", "completed">> >>,
     << <<"approved", "in_progress">>, <<"approved", "failed">> >>}

HandlerInvocations(a) == {c \in agentExec : c.alert = a /\ c.via = "handler"}

LifecycleStep(a) ==
    /\ Recorded(alerts'[a]) # Recorded(alerts[a])
         => <<Recorded(alerts[a]), Recorded(alerts'[a])>> \in LifecycleSteps
    /\ HandlerInvocations(a)' # HandlerInvocations(a)
         => alerts[a].execution_status = "in_progress"

\* C21: the recorded state of an alert changes only along pending ->
\* approved -> executing (in_progress) -> completed or failed, or pending ->
\* dismissed; the execution handler invokes the agent only for an alert
\* whose execution_status is already in_progress, and completed or failed
\* is written only over in_progress.
C21_LifecycleTransitions == [][\A a \in AlertIds : LifecycleStep(a)]_vars

-----------------------------------------------------------------------------
\* C23: every agent invocation for remediation carries the session id
\* stored with the alert it is for: the alert has a record, the id is the
\* record's agent_session_id, and it is an id (not None).
C23_StoredSessionOnly ==
    \A c \in agentExec :
        /\ alerts[c.alert] # NoAlert
        /\ c.session = alerts[c.alert].agent_session_id
        /\ c.session # "None"

-----------------------------------------------------------------------------
\* C27: the approval callback runs remediation only after the approved
\* status was written: as long as no write of approval_status has taken
\* effect (the table is not configured, or update_item raised), no
\* remediation has run, the Slack message does not show the alert as
\* approved or dismissed, and every stored alert is still pending.
C27_NoRemediationWithoutWrite ==
    statusWrites = 0 =>
        /\ remediations = 0
        /\ slackShown = "pending"
        /\ \A a \in StoredAlerts : alerts[a].approval_status = "pending"

-----------------------------------------------------------------------------
\* Deliveries of one execution request to the execution handler.
MaxDeliveries == 2

\* The store and one approval callback as in the lifecycle, with the
\* execution request of an alert delivered up to MaxDeliveries times.
RedeliveryStart ==
    /\ secretSet = TRUE
    /\ alerts = [a \in AlertIds |-> NoAlert]
    /\ cb = [i \in 1..MaxCallbacks |-> IdleCallback]
    /\ ex = [j \in 1..MaxDeliveries |-> IdleExecution]
    /\ xinv = <<>> /\ asyncQueue = <<>>
    /\ remediations = 0 /\ agentExec = {} /\ statusWrites = 0
    /\ slackShown = "pending"

Deliveries == DOMAIN ex

ExecutionRecorded(alert) == alert.execution_status \in {"completed", "failed"}

RecordedResultKept ==
    \A a \in AlertIds :
        ExecutionRecorded(alerts[a])
            => alerts'[a].execution_status = alerts[a].execution_status

-----------------------------------------------------------------------------
AlertIdle ==
    /\ secretSet = TRUE
    /\ alerts = [a \in AlertIds |-> NoAlert]
    /\ cb = [i \in 1..MaxCallbacks |-> IdleCallback]
    /\ ex = [j \in 1..MaxExecutions |-> IdleExecution]
    /\ xinv = <<>> /\ asyncQueue = <<>>
    /\ remediations = 0 /\ agentExec = {} /\ statusWrites = 0
    /\ slackShown = "pending"

AlertStart ==
    /\ secretSet \in BOOLEAN
    /\ alerts = [a \in AlertIds |-> NoAlert]
    /\ cb = [i \in 1..MaxCallbacks |-> IdleCallback]
    /\ ex = [j \in 1..MaxExecutions |-> IdleExecution]
    /\ xinv = <<>> /\ asyncQueue = <<>>
    /\ remediations = 0 /\ agentExec = {} /\ statusWrites = 0
    /\ slackShown = "pending"

QueryIdle == prompt = <<>> /\ query = <<>> /\ qPc = "idle"

NotifyIdle ==
    nReq = <<>> /\ nPc = NAt("idle", 0) /\ nLog = <<>> /\ nResp = 0
PollIdle ==
    /\ pollCfg = <<>> /\ attempt = 0 /\ queries = <<>> /\ sleeps = 0
    /\ pollPc = "idle" /\ pollResp = <<>>
CallIdle == callFn = "" /\ callArg = <<>> /\ callRet = <<>> /\ callPc = "idle"
OauthIdle ==
    /\ oauthEnv = [username |-> FALSE, password |-> FALSE, client_id |-> FALSE]
    /\ oauthInitialized = FALSE /\ tokenGetter = "None"
    /\ cognitoCalls = 0 /\ tokenLog = <<>>

NotStream == UNCHANGED <<alertVars, queryVars, notifyVars, pollVars, callVars,
                       oauthVars>>
NotAlert == UNCHANGED <<streamVars, queryVars, notifyVars, pollVars, callVars,
                       oauthVars>>
NotQuery == UNCHANGED <<streamVars, alertVars, notifyVars, pollVars, callVars,
                       oauthVars>>
NotNotify == UNCHANGED <<streamVars, alertVars, queryVars, pollVars, callVars,
                       oauthVars>>
NotPoll == UNCHANGED <<streamVars, alertVars, queryVars, notifyVars, callVars,
                       oauthVars>>
NotCall == UNCHANGED <<streamVars, alertVars, queryVars, notifyVars, pollVars,
                       oauthVars>>
NotOauth == UNCHANGED <<streamVars, alertVars, queryVars, notifyVars, pollVars,
                        callVars>>

StreamInit ==
    StreamStart /\ AlertIdle /\ QueryIdle /\ NotifyIdle /\ PollIdle /\ CallIdle
    /\ OauthIdle

StreamNext ==
    \/ GetContext /\ NotStream
    \/ EasStart /\ NotStream
    \/ GatewaySetup /\ NotStream
    \/ \E event \in Events : AgentEvent(event) /\ NotStream
    \/ AgentEnd /\ NotStream
    \/ AgentRaise /\ NotStream
    \/ SaveToMemory /\ NotStream

StreamSpec == StreamInit /\ [][StreamNext]_vars

\* The alert lifecycle: creation, approval callbacks, the execution handler
\* and the /execute link, interleaved at every store access.
Init ==
    StreamIdle /\ AlertStart /\ QueryIdle /\ NotifyIdle /\ PollIdle /\ CallIdle
    /\ OauthIdle

Next ==
    \/ \E a \in AlertIds : CreateAlert(a) /\ NotAlert
    \/ \E i \in 1..MaxCallbacks, request \in LifecycleRequests :
          CbReceive(i, request) /\ NotAlert
    \/ \E i \in 1..MaxCallbacks, a \in AlertIds : CbGet(i, a) /\ NotAlert
    \/ \E i \in 1..MaxCallbacks, a \in AlertIds : CbUpdate(i, a) /\ NotAlert
    \/ \E i \in 1..MaxCallbacks : CbAct(i) /\ NotAlert
    \/ \E j \in 1..MaxExecutions, hasAlertId \in BOOLEAN :
          ExReceive(j, hasAlertId) /\ NotAlert
    \/ \E j \in 1..MaxExecutions, a \in AlertIds : ExGet(j, a) /\ NotAlert
    \/ \E j \in 1..MaxExecutions, a \in AlertIds : ExAgent(j, a) /\ NotAlert
    \/ \E j \in 1..MaxExecutions, a \in AlertIds : ExUpdate(j, a) /\ NotAlert
    \/ \E params \in LifecycleExecuteParams : XArrive(params) /\ NotAlert
    \/ XDeliver /\ NotAlert
    \/ \E n \in 1..Len(xinv) : XStart(n) /\ NotAlert
    \/ \E n \in 1..Len(xinv) : XAgent(n) /\ NotAlert

Spec == Init /\ [][Next]_vars

\* The approval callback alone, over every kind of request.
AuthNext ==
    \/ \E a \in AlertIds : CreateAlert(a) /\ NotAlert
    \/ \E i \in 1..MaxCallbacks, request \in SlackRequests :
          CbReceive(i, request) /\ NotAlert
    \/ \E i \in 1..MaxCallbacks, a \in AlertIds : CbGet(i, a) /\ NotAlert
    \/ \E i \in 1..MaxCallbacks, a \in AlertIds : CbUpdate(i, a) /\ NotAlert
    \/ \E i \in 1..MaxCallbacks : CbAct(i) /\ NotAlert

AuthSpec == Init /\ [][AuthNext]_vars

\* The /execute handler alone, over every combination of parameters.
ExecuteNext ==
    \/ \E params \in ExecuteParams : XArrive(params) /\ NotAlert
    \/ XDeliver /\ NotAlert
    \/ \E n \in 1..Len(xinv) : XStart(n) /\ NotAlert
    \/ \E n \in 1..Len(xinv) : XAgent(n) /\ NotAlert

ExecuteSpec == Init /\ [][ExecuteNext]_vars

\* extract_tool_query over the prompts considered.
QueryInit ==
    StreamIdle /\ AlertIdle /\ QueryStart /\ NotifyIdle /\ PollIdle /\ CallIdle
    /\ OauthIdle

QueryNext ==
    \/ ExtractToolQuery /\ NotQuery

QuerySpec == QueryInit /\ [][QueryNext]_vars

\* One run of a notifying handler, over every combination of failures.
NotifyInit ==
    StreamIdle /\ AlertIdle /\ QueryIdle /\ NotifyStart /\ PollIdle /\ CallIdle
    /\ OauthIdle

NotifyNext ==
    \/ NValidate /\ NotNotify
    \/ NAnalyse /\ NotNotify
    \/ NUpload /\ NotNotify
    \/ NStore /\ NotNotify
    \/ \E k \in 1..3 : NSend(k) /\ NotNotify
    \/ NReturn /\ NotNotify

NotifySpec == NotifyInit /\ [][NotifyNext]_vars

\* The polling branch of the ingest handler.  The loop is sequential code
\* and time.sleep returns, so a step that is possible is eventually taken.
PollInit ==
    StreamIdle /\ AlertIdle /\ QueryIdle /\ NotifyIdle /\ PollStart /\ CallIdle
    /\ OauthIdle

PollNext ==
    \/ \E outcome \in QueryOutcomes : PollQuery(outcome) /\ NotPoll
    \/ PollSleep /\ NotPoll
    \/ PollTimeout /\ NotPoll

PollSpec == PollInit /\ [][PollNext]_vars /\ WF_vars(PollNext)

ParseInit ==
    StreamIdle /\ AlertIdle /\ QueryIdle /\ NotifyIdle /\ PollIdle /\ ParseStart
    /\ OauthIdle

ParseNext ==
    \/ ParseExecutionLog /\ NotCall

ParseSpec == ParseInit /\ [][ParseNext]_vars

ToolInit ==
    StreamIdle /\ AlertIdle /\ QueryIdle /\ NotifyIdle /\ PollIdle /\ ToolTurnStart
    /\ OauthIdle

ToolNext ==
    \/ BuildLocalAgent /\ NotCall
    \/ BuildGatewayAgent /\ NotCall
    \/ BuildFallbackAgent /\ NotCall

ToolSpec == ToolInit /\ [][ToolNext]_vars

FormatInit ==
    StreamIdle /\ AlertIdle /\ QueryIdle /\ NotifyIdle /\ PollIdle /\ FormatStart
    /\ OauthIdle

FormatNext ==
    \/ FormatDiyResponse /\ NotCall
    \/ ExtractContentFromEvent /\ NotCall

FormatSpec == FormatInit /\ [][FormatNext]_vars

HandoffInit ==
    StreamIdle /\ AlertIdle /\ QueryIdle /\ NotifyIdle /\ PollIdle /\ HandoffStart
    /\ OauthIdle

HandoffNext ==
    \/ IsHandoffEventCall /\ NotCall

HandoffSpec == HandoffInit /\ [][HandoffNext]_vars

\* Alerts and the /execute link, over every combination of parameters.
SessionNext ==
    \/ \E a \in AlertIds : CreateAlert(a) /\ NotAlert
    \/ \E params \in ExecuteParams : XArrive(params) /\ NotAlert
    \/ XDeliver /\ NotAlert
    \/ \E n \in 1..Len(xinv) : XStart(n) /\ NotAlert
    \/ \E n \in 1..Len(xinv) : XAgent(n) /\ NotAlert

SessionSpec == Init /\ [][SessionNext]_vars

\* get_m2m_token and setup_oauth called in any order in one process, over
\* every environment and every answer of Cognito and of the configuration.
OauthInit ==
    StreamIdle /\ AlertIdle /\ QueryIdle /\ NotifyIdle /\ PollIdle /\ CallIdle
    /\ OauthStart

OauthNext ==
    \/ \E config \in ConfigOutcomes, cognito \in CognitoOutcomes :
          GetM2mToken(config, cognito) /\ NotOauth
    \/ \E config \in ConfigOutcomes, cognito \in CognitoOutcomes :
          SetupOauth(config, cognito) /\ NotOauth

OauthSpec == OauthInit /\ [][OauthNext]_vars

\* One alert, one approval callback and the repeated delivery of the
\* execution request (SNS delivers at least once).
RedeliveryInit ==
    StreamIdle /\ RedeliveryStart /\ QueryIdle /\ NotifyIdle /\ PollIdle /\ CallIdle
    /\ OauthIdle

RedeliveryNext ==
    \/ \E a \in AlertIds : CreateAlert(a) /\ NotAlert
    \/ \E request \in LifecycleRequests : CbReceive(1, request) /\ NotAlert
    \/ \E a \in AlertIds : CbGet(1, a) /\ NotAlert
    \/ \E a \in AlertIds : CbUpdate(1, a) /\ NotAlert
    \/ CbAct(1) /\ NotAlert
    \/ \E j \in Deliveries, hasAlertId \in BOOLEAN :
          ExReceive(j, hasAlertId) /\ NotAlert
    \/ \E j \in Deliveries, a \in AlertIds : ExGet(j, a) /\ NotAlert
    \/ \E j \in Deliveries, a \in AlertIds : ExAgent(j, a) /\ NotAlert
    \/ \E j \in Deliveries, a \in AlertIds : ExUpdate(j, a) /\ NotAlert

RedeliverySpec == RedeliveryInit /\ [][RedeliveryNext]_vars

StoreInit ==
    StreamIdle /\ AlertIdle /\ QueryIdle /\ NotifyIdle /\ PollIdle /\ StoreStart
    /\ OauthIdle

StoreNext ==
    \/ StoreAlertInDynamodb /\ NotCall

StoreSpec == StoreInit /\ [][StoreNext]_vars

=============================================================================
